---------------------------- MODULE Spec2Model ----------------------------
(***************************************************************************)
(* A model of the agent orchestration loop of multi_agent_framework:       *)
(* GraphAgent (graph_agent.py), ToolManager.run_tool (tool_manager.py) and *)
(* the interactive caller (__main__.py).                                   *)
(*                                                                         *)
(* Python strings are modelled as sequences of tokens, so that an f-string *)
(* is a concatenation and "s contains t" is "t is a contiguous part of s". *)
(* The empty string is <<>>.                                               *)
(***************************************************************************)
EXTENDS Integers, Sequences, FiniteSets, TLC

(* ------------------------------ bounds --------------------------------- *)

\* longest prior history a caller supplies; the caller stops asking for
\* turns once its history is longer than this
MaxHist == 2
\* most tool-call requests in one model response
MaxCalls == 2

(* ------------------------------ helpers -------------------------------- *)

BoundedSeq(S, n) == UNION {[1..k -> S] : k \in 0..n}

RECURSIVE DropType(_, _)
\* msgs without its messages of type t, in order
DropType(msgs, t) ==
    IF msgs = <<>> THEN <<>>
    ELSE IF Head(msgs).type = t
         THEN DropType(Tail(msgs), t)
         ELSE <<Head(msgs)>> \o DropType(Tail(msgs), t)

\* t is a contiguous part of s (Python's "t in s" for strings)
Contains(s, t) ==
    \E i \in 0..(Len(s) - Len(t)) :
        \A j \in 1..Len(t) : s[i + j] = t[j]

(* ------------------------------ messages ------------------------------- *)

SystemMessage(c) == [type |-> "system", content |-> c, tool_calls |-> <<>>]
HumanMessage(c)  == [type |-> "human",  content |-> c, tool_calls |-> <<>>]
AIMessage(c, tc) == [type |-> "ai",     content |-> c, tool_calls |-> tc]
ToolMessage(c)   == [type |-> "tool",   content |-> c, tool_calls |-> <<>>]

\* str(message) of a message that is not an AIMessage (chat, line 191)
StrOfMessage(m) == <<"content='">> \o m.content \o <<"'">>

ToolCall(n, x) == [name |-> n, args |-> [x |-> x]]

\* the tool-call requests a model response may carry: two loaded tools
\* (echo with two arguments, boom) and one name that is not loaded
ToolCalls ==
    { ToolCall("echo", "hi"), ToolCall("echo", "yo"),
      ToolCall("boom", "hi"), ToolCall("ghost", "hi") }

\* what the completion service may answer: any content, with any list of
\* tool-call requests
Responses ==
    { AIMessage(c, tc) : c \in {<<>>, <<"hi">>}, tc \in BoundedSeq(ToolCalls, MaxCalls) }

\* the messages a caller-supplied history is made of
HistoryMessages ==
    { SystemMessage(<<"old prompt">>),
      HumanMessage(<<"q">>),
      AIMessage(<<"a">>, <<>>),
      AIMessage(<<>>, <<ToolCall("echo", "hi")>>),
      ToolMessage(<<"r">>) }

Histories == BoundedSeq(HistoryMessages, MaxHist)

\* config.get('system_prompt', ''): absent/empty or a prompt
SystemPrompts == { <<>>, <<"be brief">> }

UserInputs == { <<"hello">> }


(* ------------------------------- state --------------------------------- *)

VARIABLES
    system_prompt,    \* GraphAgent.config.config['system_prompt']
    callables,        \* ToolManager.callables: tool name -> plugin
    heap,             \* the two list objects of a turn: heap.h is the caller's
                      \* history list, heap.m the list chat() allocates
    pc,               \* where control is: the caller ("input", "chat_returned",
                      \* "chat_raised", "exited") or a graph node of the turn
                      \* ("agent", "router", "action", "END")
    user_message,     \* the user_message argument of the running chat()
    state_messages,   \* AgentState['messages'], the graph's channel
    request,          \* the list handed to llm.invoke in this turn
    response,         \* what llm.invoke returned in this turn
    route,            \* what _router returned in this turn
    llm_calls,        \* number of llm.invoke calls of this turn
    run_log,          \* the run_tool calls of this turn, in order
    call_log,         \* the plugin callables called in this turn, in order
    run_results,      \* what each run_tool call of this turn returned or raised
    reply,            \* the value chat() returned
    error,            \* the exception chat() raised
    history_at_call,  \* the contents of the caller's list when chat() was called
    knowledge_bases,  \* KnowledgeManager.knowledge_bases: store name -> the
                      \* ChromaKnowledgeBase, given by its collection's name
    configs,          \* KnowledgeManager.configs: store name -> configuration
    collections,      \* the Chroma database: collection name -> its records,
                      \* in insertion order
    kb_op,            \* the last KnowledgeManager call: its name and arguments
    kb_ret,           \* what that call returned
    kb_raised,        \* whether that call raised
    kb_prev           \* knowledge_bases, configs and collections before that call

VARIABLES
    tools,             \* ToolManager.tools: tool name -> descriptor (ToolConfig)
    tool_config_paths, \* the path list the ToolManager is constructed from
    tm_phase,          \* "new" before ToolManager(...), then "ready", or
                       \* "failed" when the constructor raised
    tm_built,          \* tools and callables as the constructor left them
    tm_op,             \* the last ToolManager method called, with its arguments
    tm_ret             \* its outcome: a returned value or a raised exception

VARIABLES
    ca_kind,           \* which class the conversational agent is: "ChatAgent"
                       \* or "SimpleChatAgent"
    ca_config,         \* its config: name and system prompt
    ca_heap,           \* its list objects: ca_heap.own is self.chat_history,
                       \* ca_heap.got the list a get_history call allocated
    ca_got,            \* which list object the caller holds from get_history
                       \* ("none" before the first call)
    ca_file,           \* the conversation file: whether it was written, its
                       \* YAML document, and the history's (role, content)
                       \* pairs at the time of the save
    ca_op,             \* the last method called, with its arguments
    ca_ret,            \* what it returned, and whether it raised
    ca_prev,           \* self.chat_history before that call
    ca_turns           \* calls since construction: chat calls whose model
                       \* call returned, chat calls whose model call raised,
                       \* and calls of anything else

agent_vars == << system_prompt, callables, heap, pc, user_message, state_messages,
                 request, response, route, llm_calls, run_log, call_log,
                 run_results, reply, error, history_at_call >>

kb_vars == << knowledge_bases, configs, collections, kb_op, kb_ret, kb_raised,
              kb_prev >>

\* the GraphAgent's part of agent_vars: all but the ToolManager's callables
graph_vars == << system_prompt, heap, pc, user_message, state_messages,
                 request, response, route, llm_calls, run_log, call_log,
                 run_results, reply, error, history_at_call >>

tm_vars == << tools, tool_config_paths, tm_phase, tm_built, tm_op, tm_ret >>

ca_vars == << ca_kind, ca_config, ca_heap, ca_got, ca_file, ca_op, ca_ret, ca_prev, ca_turns >>

\* AgentManager: what its configuration files and collaborators hold, the
\* last call made on it and what that call returned or raised
VARIABLES am_env, am_op, am_ret

am_vars == << am_env, am_op, am_ret >>

vars == << agent_vars, kb_vars, tm_vars, ca_vars, am_vars >>

\* the caller's history list
history == heap.h

NoMessage == [type |-> "none", content |-> <<>>, tool_calls |-> <<>>]
NoError == <<>>

(* ---------------------------- ToolManager ------------------------------ *)

\* the plugins behind the loaded tools: echo returns its argument x
\* unchanged, boom raises
CallPlugin(plugin, args) ==
    IF plugin = "echo"
    THEN [kind |-> "return", value |-> <<args.x>>]
    ELSE [kind |-> "raise",  value |-> <<"boom failed on ", args.x>>]

\* the tools a ToolManager holds after construction
LoadedCallables == [n \in {"echo", "boom"} |-> n]

\* a ToolConfig; py_plugin is <<>> when the field is absent or empty
ToolConfig(description, py_plugin, schema_def) ==
    [description |-> description, py_plugin |-> py_plugin, schema_def |-> schema_def]

\* the tool config files on disk, by path: two whose plugin reference
\* resolves, one without a reference, one naming an object its module does
\* not have, one whose reference has no colon, and one naming a module that
\* cannot be imported together with the name of a tool of another file
ToolConfigFiles ==
    [path \in {"echo.yaml", "boom.yaml", "noplugin.yaml", "ghost.yaml",
               "nocolon.yaml", "echo2.yaml"} |->
        CASE path = "echo.yaml" ->
                 ToolConfig(<<"echoes x">>, <<"plugins", ":", "echo">>, "echo schema")
          [] path = "boom.yaml" ->
                 ToolConfig(<<"fails">>, <<"plugins", ":", "boom">>, "boom schema")
          [] path = "noplugin.yaml" ->
                 ToolConfig(<<"no plugin">>, <<>>, "noplugin schema")
          [] path = "ghost.yaml" ->
                 ToolConfig(<<"not there">>, <<"plugins", ":", "ghost">>, "ghost schema")
          [] path = "nocolon.yaml" ->
                 ToolConfig(<<"no colon">>, <<"plugins.echo">>, "nocolon schema")
          [] path = "echo2.yaml" ->
                 ToolConfig(<<"other echo">>, <<"nomodule", ":", "echo">>, "echo2 schema")]

\* the importable modules and the objects each defines
Modules == [m \in {"plugins"} |-> {"echo", "boom"}]

\* the descriptors of the tools of LoadedCallables
LoadedTools == [n \in {"echo", "boom"} |-> ToolConfigFiles[IF n = "echo" THEN "echo.yaml" ELSE "boom.yaml"]]

\* A run_tool that lets the callable's exception through.
RunToolUncaught(cs, tool_name, kwargs) ==
    IF tool_name \notin DOMAIN cs
    THEN [kind |-> "raise", called |-> <<>>,
          value |-> <<"tool '", tool_name, "' is not available or not loaded.">>]
    ELSE [kind |-> CallPlugin(cs[tool_name], kwargs).kind,
          called |-> <<tool_name>>,
          value |-> CallPlugin(cs[tool_name], kwargs).value]

\* ToolManager.run_tool(tool_name, **kwargs): the outcome (a returned value or
\* a raised exception with its message) and the callables it called
RunTool(cs, tool_name, kwargs) ==
    IF tool_name \notin DOMAIN cs
    THEN \* raise ValueError(f"工具 '{tool_name}' 不可用或未加载。")
         [kind |-> "raise", called |-> <<>>,
          value |-> <<"tool '", tool_name, "' is not available or not loaded.">>]
    ELSE LET r == CallPlugin(cs[tool_name], kwargs) IN
         IF r.kind = "raise"
         THEN \* return f"执行工具 '{tool_name}' 失败: {e}"
              [kind |-> "return", called |-> <<tool_name>>,
               value |-> <<"running tool '", tool_name, "' failed: ">> \o r.value]
         ELSE [kind |-> "return", called |-> <<tool_name>>, value |-> r.value]

(* ----------------------------- GraphAgent ------------------------------ *)

RECURSIVE KeepAdjacentFrom(_, _)
\* messages from index i on, without the ToolMessages that do not directly
\* follow an AIMessage carrying tool calls
KeepAdjacentFrom(messages, i) ==
    IF i > Len(messages) THEN <<>>
    ELSE IF \/ messages[i].type # "tool"
            \/ /\ i > 1
               /\ messages[i - 1].type = "ai"
               /\ messages[i - 1].tool_calls # <<>>
         THEN <<messages[i]>> \o KeepAdjacentFrom(messages, i + 1)
         ELSE KeepAdjacentFrom(messages, i + 1)

\* A cleaning that keeps a ToolMessage next to its requesting AIMessage.
CleanMessagesKeepAdjacent(messages) == KeepAdjacentFrom(messages, 1)

\* _agent_node's while loop: every ToolMessage is skipped, every other
\* message is appended to cleaned_messages
CleanMessages(messages) == DropType(messages, "tool")

\* f"工具 {tool_call['name']} 的结果: {result}"
ResultLine(name, result) == <<"tool ", name, " result: ">> \o result

RECURSIVE ToolLoop(_, _, _)
\* _tool_node's for loop over ai_message.tool_calls, from the accumulated
\* state acc; an exception of run_tool ends the loop
ToolLoop(cs, calls, acc) ==
    IF calls = <<>> THEN acc
    ELSE LET tool_call == Head(calls)
             r == RunTool(cs, tool_call.name, tool_call.args)
             logged == [acc EXCEPT !.run_log = Append(@, tool_call),
                                   !.call_log = @ \o r.called,
                                   !.run_results = Append(@, r)]
         IN  IF r.kind = "raise"
             THEN [logged EXCEPT !.raised = TRUE, !.error = r.value]
             ELSE ToolLoop(cs, Tail(calls),
                           [logged EXCEPT !.tool_results =
                               Append(@, ResultLine(tool_call.name, r.value))])

RECURSIVE Join(_, _)
\* sep.join(lines)
Join(sep, lines) ==
    IF lines = <<>> THEN <<>>
    ELSE IF Len(lines) = 1 THEN Head(lines)
    ELSE Head(lines) \o sep \o Join(sep, Tail(lines))

\* the AIMessage _tool_node builds from the result lines
SummaryMessage(tool_results) ==
    AIMessage(<<"based on the tool results:\n">> \o Join(<<"\n">>, tool_results)
              \o <<"\n\nlet me summarise this for you.">>, <<>>)

\* A router that looks at the content before the tool calls.
RouterContentFirst(last_message) ==
    IF last_message.type = "ai" /\ last_message.tool_calls # <<>>
       /\ last_message.content = <<>>
    THEN "call_tool" ELSE "end"

\* _router
Router(last_message) ==
    IF last_message.type = "ai" /\ last_message.tool_calls # <<>>
    THEN "call_tool" ELSE "end"

\* add_conditional_edges("agent", _router, {"call_tool": "action", "end": END})
ConditionalEdge(r) == IF r = "call_tool" THEN "action" ELSE "END"

\* An edge that sends the tool round back to the model.
ActionEdgeLoop == "agent"

\* add_edge("action", END)
ActionEdge == "END"

\* chat() building into the caller's own list.
MessagesRefAliased == "h"

\* `messages: List[BaseMessage] = []`: the list object chat() builds into
MessagesRef == "m"

\* A chat() that adds the system prompt whatever the history holds.
NeedsSystemPromptAlways(prompt, hist) == prompt # <<>>

\* `system_prompt and not any(isinstance(m, SystemMessage) for m in history)`
NeedsSystemPrompt(prompt, hist) ==
    prompt # <<>> /\ \A i \in 1..Len(hist) : hist[i].type # "system"

\* chat() lines 171-184: the heap after the prompt, the history and the user
\* message went into the list ref
BuildMessages(hp, ref, prompt, user) ==
    LET h1 == IF NeedsSystemPrompt(prompt, hp.h)
              THEN [hp EXCEPT ![ref] = Append(@, SystemMessage(prompt))]
              ELSE hp
        h2 == IF h1.h # <<>> THEN [h1 EXCEPT ![ref] = @ \o h1.h] ELSE h1
    IN  [h2 EXCEPT ![ref] = Append(@, HumanMessage(user))]

\* A chat() that returns str(ai_response) for every message.
ResponseContentStr(ai_response) == StrOfMessage(ai_response)

\* chat() lines 190-191
ResponseContent(ai_response) ==
    IF ai_response.type = "ai" THEN ai_response.content
    ELSE StrOfMessage(ai_response)

(* -------------------------- KnowledgeManager --------------------------- *)

\* a function with no entries (an empty dict)
EmptyMap == [k \in {} |-> k]

\* d with d[k] = v set
Put(d, k, v) == [x \in DOMAIN d \cup {k} |-> IF x = k THEN v ELSE d[x]]

\* d with the key k deleted
Del(d, k) == [x \in DOMAIN d \ {k} |-> d[x]]

\* {**d, **e}, d.update(e)
Merge(d, e) == [x \in DOMAIN d \cup DOMAIN e |-> IF x \in DOMAIN e THEN e[x] ELSE d[x]]

\* the names a Chroma collection can have (a store's collection is named
\* after its configuration)
CollectionNames == {"kb1", "kb2"}

NoOp == [op |-> "none"]

\* the manager's registry and the database as one value
KbSnapshot(kbs, cfgs, colls) ==
    [knowledge_bases |-> kbs, configs |-> cfgs, collections |-> colls]

\* KnowledgeManager.__init__: no store, no configuration; the database
\* holds no record
KnowledgeManagerInit ==
    /\ knowledge_bases = EmptyMap
    /\ configs = EmptyMap
    /\ collections = [c \in CollectionNames |-> <<>>]
    /\ kb_op = NoOp
    /\ kb_ret = FALSE
    /\ kb_raised = FALSE
    /\ kb_prev = KbSnapshot(EmptyMap, EmptyMap, [c \in CollectionNames |-> <<>>])

(* ------------------------------ actions -------------------------------- *)

TurnLocalsCleared ==
    /\ user_message' = <<>>
    /\ state_messages' = <<>>
    /\ request' = <<>>
    /\ response' = NoMessage
    /\ route' = "none"
    /\ llm_calls' = 0
    /\ run_log' = <<>>
    /\ call_log' = <<>>
    /\ run_results' = <<>>
    /\ reply' = <<>>
    /\ error' = NoError

\* the agent's ToolManager, constructed from the files of its two tools
ToolManagerLoaded ==
    /\ tools = LoadedTools
    /\ tool_config_paths = <<"echo.yaml", "boom.yaml">>
    /\ tm_phase = "ready"
    /\ tm_built = [tools |-> LoadedTools, callables |-> LoadedCallables]
    /\ tm_op = NoOp
    /\ tm_ret = [kind |-> "return", value |-> <<>>]

\* no ChatAgent or SimpleChatAgent created
NoChatAgent ==
    /\ ca_kind = "none"
    /\ ca_config = [name |-> <<>>, system_prompt |-> <<>>]
    /\ ca_heap = [own |-> <<>>, got |-> <<>>]
    /\ ca_got = "none"
    /\ ca_file = [written |-> FALSE, document |-> <<>>, saved |-> <<>>]
    /\ ca_op = NoOp
    /\ ca_ret = [value |-> <<>>, raised |-> FALSE]
    /\ ca_prev = <<>>
    /\ ca_turns = [ok |-> 0, failed |-> 0, other |-> 0]

\* no AgentManager created
NoAgentManager ==
    /\ am_env = [factory |-> FALSE, templates |-> EmptyMap, tools |-> EmptyMap,
                 knowledge |-> EmptyMap]
    /\ am_op = NoOp
    /\ am_ret = [value |-> <<>>, raised |-> "no"]

Init ==
    /\ NoAgentManager
    /\ system_prompt \in SystemPrompts
    /\ callables = LoadedCallables
    /\ heap \in [h : Histories, m : {<<>>}]
    /\ pc = "input"
    /\ user_message = <<>>
    /\ state_messages = <<>>
    /\ request = <<>>
    /\ response = NoMessage
    /\ route = "none"
    /\ llm_calls = 0
    /\ run_log = <<>>
    /\ call_log = <<>>
    /\ run_results = <<>>
    /\ reply = <<>>
    /\ error = NoError
    /\ history_at_call = heap.h
    /\ KnowledgeManagerInit
    /\ ToolManagerLoaded
    /\ NoChatAgent

\* the caller calls chat(user_input, history); chat builds messages and
\* enters the graph at its entry point
Chat ==
    /\ pc = "input"
    /\ Len(heap.h) <= MaxHist
    /\ \E u \in UserInputs :
        LET built == BuildMessages(heap, MessagesRef, system_prompt, u) IN
        /\ user_message' = u
        /\ history_at_call' = heap.h
        /\ heap' = built
        /\ state_messages' = built[MessagesRef]
    /\ pc' = "agent"
    /\ UNCHANGED << kb_vars, tm_vars, ca_vars, am_vars >>
    /\ UNCHANGED << system_prompt, callables, request, response, route,
                    llm_calls, run_log, call_log, run_results, reply, error >>

\* _agent_node: one llm.invoke, which answers or raises
AgentNode ==
    /\ pc = "agent"
    /\ request' = CleanMessages(state_messages)
    /\ llm_calls' = llm_calls + 1
    /\ \/ \E r \in Responses :
            /\ response' = r
            /\ state_messages' = <<r>>
            /\ pc' = "router"
            /\ error' = error
       \/ /\ error' = <<"completion service failed">>
          /\ pc' = "chat_raised"
          /\ UNCHANGED << response, state_messages >>
    /\ UNCHANGED << kb_vars, tm_vars, ca_vars, am_vars >>
    /\ UNCHANGED << system_prompt, callables, heap, user_message, route,
                    run_log, call_log, run_results, reply, history_at_call >>

\* the conditional edge after the agent node
RouterStep ==
    /\ pc = "router"
    /\ route' = Router(state_messages[Len(state_messages)])
    /\ pc' = ConditionalEdge(route')
    /\ UNCHANGED << kb_vars, tm_vars, ca_vars, am_vars >>
    /\ UNCHANGED << system_prompt, callables, heap, user_message,
                    state_messages, request, response, llm_calls, run_log,
                    call_log, run_results, reply, error, history_at_call >>

\* _tool_node, then the edge out of the action node
ToolNode ==
    /\ pc = "action"
    /\ LET ai_message == state_messages[Len(state_messages)]
           done == ToolLoop(callables, ai_message.tool_calls,
                            [tool_results |-> <<>>, run_log |-> <<>>,
                             call_log |-> <<>>, run_results |-> <<>>,
                             raised |-> FALSE,
                             error |-> NoError])
       IN  /\ run_log' = done.run_log
           /\ call_log' = done.call_log
           /\ run_results' = done.run_results
           /\ IF done.raised
              THEN /\ error' = done.error
                   /\ pc' = "chat_raised"
                   /\ UNCHANGED state_messages
              ELSE /\ state_messages' = <<SummaryMessage(done.tool_results)>>
                   /\ pc' = ActionEdge
                   /\ UNCHANGED error
    /\ UNCHANGED << kb_vars, tm_vars, ca_vars, am_vars >>
    /\ UNCHANGED << system_prompt, callables, heap, user_message, request,
                    response, route, llm_calls, reply, history_at_call >>

\* graph.invoke returned: chat() extracts the reply and returns it
ChatReturn ==
    /\ pc = "END"
    /\ reply' = ResponseContent(state_messages[Len(state_messages)])
    /\ pc' = "chat_returned"
    /\ UNCHANGED << kb_vars, tm_vars, ca_vars, am_vars >>
    /\ UNCHANGED << system_prompt, callables, heap, user_message,
                    state_messages, request, response, route, llm_calls,
                    run_log, call_log, run_results, error, history_at_call >>

\* interactive_graph_chat lines 35-39: the caller appends the turn to its
\* history and asks for the next input
ReplAppend ==
    /\ pc = "chat_returned"
    /\ heap' = [h |-> heap.h \o << HumanMessage(user_message),
                                   AIMessage(reply, <<>>) >>,
                m |-> <<>>]
    /\ history_at_call' = heap'.h
    /\ pc' = "input"
    /\ TurnLocalsCleared
    /\ UNCHANGED << kb_vars, tm_vars, ca_vars, am_vars >>
    /\ UNCHANGED << system_prompt, callables >>

\* interactive_graph_chat lines 41-43: an exception out of chat() ends the
\* conversation loop
ReplFatal ==
    /\ pc = "chat_raised"
    /\ pc' = "exited"
    /\ UNCHANGED << kb_vars, tm_vars, ca_vars, am_vars >>
    /\ UNCHANGED << system_prompt, callables, heap, user_message,
                    state_messages, request, response, route, llm_calls,
                    run_log, call_log, run_results, reply, error,
                    history_at_call >>

Next ==
    \/ Chat
    \/ AgentNode
    \/ RouterStep
    \/ ToolNode
    \/ ChatReturn
    \/ ReplAppend
    \/ ReplFatal

Spec == Init /\ [][Next]_vars

(* ------------------------------ properties ---------------------------- *)

\* control is inside a turn, past the agent node
PastAgent == pc \in {"router", "action", "END", "chat_returned", "chat_raised", "exited"}

\* the turn went through the tool node
ToolRoundDone ==
    route = "call_tool" /\ pc \in {"END", "chat_returned", "chat_raised", "exited"}

C2_RouterTieBreak ==
    /\ route # "none" =>
         /\ route = "call_tool" <=> response.tool_calls # <<>>
         /\ route = "end" <=> response.tool_calls = <<>>
    /\ pc = "action" => response.tool_calls # <<>>
    /\ pc = "END" /\ response.tool_calls # <<>> => run_log # <<>>
    /\ pc = "chat_returned" /\ response.tool_calls = <<>>
       /\ response.content = <<>> => reply = <<>> /\ route = "end"

\* a response with both content and a tool-call request went to the tools
C2_Witness ==
    /\ pc = "action" /\ route = "call_tool"
    /\ response.content # <<>> /\ response.tool_calls # <<>>

\* C3: when the response has no tool calls, chat returns exactly the
\* response's content and run_tool is not invoked during the turn.
C3_DirectReply ==
    response.type = "ai" /\ response.tool_calls = <<>> =>
        /\ run_log = <<>> /\ call_log = <<>>
        /\ pc \in {"router", "END", "chat_returned"}
        /\ pc = "chat_returned" => reply = response.content

\* a direct answer "hi" was returned
C3_Witness ==
    /\ pc = "chat_returned" /\ response.tool_calls = <<>>
    /\ response.content = <<"hi">> /\ reply = <<"hi">> /\ run_log = <<>>

\* the result lines of the run_tool calls made, in call order
LinesOfRound ==
    [i \in 1..Len(run_results) |-> ResultLine(run_log[i].name, run_results[i].value)]

\* C4: in a tool round every requested call is run through run_tool exactly
\* once, in the order received, none skipped because of another call's
\* outcome, and the reply is the one synthetic assistant message holding one
\* result line per call in that order.
C4_AllCallsRunInOrder ==
    ToolRoundDone =>
        /\ run_log = response.tool_calls
        /\ Len(run_results) = Len(response.tool_calls)
        /\ pc = "chat_returned" =>
             /\ reply = SummaryMessage(LinesOfRound).content
             /\ state_messages = <<SummaryMessage(LinesOfRound)>>
             /\ state_messages[1].type = "ai"

\* the call i of the round failed: its tool is not loaded or its plugin raised
CallFailed(i) ==
    LET c == response.tool_calls[i] IN
    \/ c.name \notin DOMAIN callables
    \/ CallPlugin(callables[c.name], c.args).kind = "raise"

\* C5: a failing tool call (unknown name, or a callable that raises) never
\* aborts the turn: chat returns, every call of the round was executed, and
\* each failure is a failure string naming the tool inside the reply.
C5_ToolFailureAbsorbed ==
    ToolRoundDone /\ (\E i \in 1..Len(response.tool_calls) : CallFailed(i)) =>
        /\ pc \notin {"chat_raised", "exited"}
        /\ error = NoError
        /\ Len(run_log) = Len(response.tool_calls)
        /\ pc = "chat_returned" =>
             \A i \in 1..Len(response.tool_calls) :
                CallFailed(i) =>
                    /\ run_results[i].kind = "return"
                    /\ Contains(reply, run_results[i].value)
                    /\ Contains(run_results[i].value, <<response.tool_calls[i].name>>)

\* C6: run_tool has three outcomes. A name that is not loaded: a not-found
\* error, no callable called. A loaded name whose callable raises: a returned
\* failure string that contains the tool name. A loaded name whose callable
\* returns: exactly the callable's value (echo of x = "hi" returns "hi").
C6_RunToolOutcomes ==
    /\ Len(run_results) = Len(run_log)
    /\ \A i \in 1..Len(run_log) :
        LET c == run_log[i]
            o == run_results[i]
        IN  IF c.name \notin DOMAIN callables
            THEN /\ o.kind = "raise"
                 /\ o.called = <<>>
                 /\ Contains(o.value, <<c.name>>)
            ELSE /\ o.kind = "return"
                 /\ o.called = <<c.name>>
                 /\ CallPlugin(callables[c.name], c.args).kind = "raise" =>
                        /\ Contains(o.value, <<c.name>>)
                        /\ o.value # CallPlugin(callables[c.name], c.args).value
                 /\ CallPlugin(callables[c.name], c.args).kind = "return" =>
                        o.value = CallPlugin(callables[c.name], c.args).value
                 /\ c = ToolCall("echo", "hi") => o.value = <<"hi">>
    /\ call_log = SelectSeq(
           [i \in 1..Len(run_log) |-> run_log[i].name],
           LAMBDA n : n \in DOMAIN callables)

\* a round that ran a raising tool, then asked for a tool that is not loaded
C6_Witness ==
    /\ run_log = << ToolCall("boom", "hi"), ToolCall("ghost", "hi") >>
    /\ run_results[1].kind = "return" /\ run_results[2].kind = "raise"
    /\ call_log = <<"boom">>

\* the completion service failed in this turn
ModelFailed == error = <<"completion service failed">>

\* C7: when the completion-service call fails, chat hands the caller an
\* explicit error result (a marked error string, not an exception), and the
\* caller's conversation state is as it was: nothing of the turn is appended.
C7_ModelFailureReported ==
    ModelFailed =>
        /\ pc \notin {"chat_raised", "exited"}
        /\ history = history_at_call

\* C8: chat never mutates the caller's history list: through the whole turn,
\* whether it answered directly, ran tools or failed, the list is what it was
\* at the call, and the turn's messages are built in a list of their own.
C8_HistoryNotMutated ==
    pc \in {"agent", "router", "action", "END", "chat_returned", "chat_raised", "exited"} =>
        heap.h = history_at_call

\* a tool round returned to a caller whose history was not empty
C8_Witness ==
    /\ pc = "chat_returned" /\ route = "call_tool"
    /\ history_at_call # <<>> /\ heap.m # <<>> /\ heap.h = history_at_call

\* the list chat() built for the running turn
built_messages == heap.m

\* the number of ToolMessages among the first i built messages
ToolsUpTo(i) == Cardinality({j \in 1..i : built_messages[j].type = "tool"})

\* a ToolMessage of the built list directly follows an AIMessage with tool calls
HasAdjacentToolResult ==
    \E i \in 1..(Len(built_messages) - 1) :
        /\ built_messages[i].type = "ai" /\ built_messages[i].tool_calls # <<>>
        /\ built_messages[i + 1].type = "tool"

SystemFirstOnly(msgs) == \A i \in 1..Len(msgs) : msgs[i].type = "system" => i = 1

\* C10 as stated: for every caller-supplied history and every system prompt
\* the list chat builds, and the request made of it, holds at most one system
\* message, and that one first.
C10_OneSystemMessageFirst ==
    /\ pc = "agent" \/ llm_calls = 1 => SystemFirstOnly(built_messages)
    /\ llm_calls = 1 => SystemFirstOnly(request)

\* C10, amended: for every caller-supplied history that itself holds at most
\* one system message, and that one first, and every system prompt, the list
\* chat builds, and the request made of it, holds at most one system message,
\* and that one first.
C10_SystemInvariantPreserved ==
    SystemFirstOnly(history_at_call) =>
        /\ pc = "agent" \/ llm_calls = 1 => SystemFirstOnly(built_messages)
        /\ llm_calls = 1 => SystemFirstOnly(request)

\* a prompt is configured and the history already starts with a system message
C10_Witness ==
    /\ llm_calls = 1 /\ system_prompt # <<>>
    /\ Len(history_at_call) > 1 /\ history_at_call[1].type = "system"
    /\ SystemFirstOnly(history_at_call)
    /\ request[1] = history_at_call[1]

(***************************************************************************)
(* The knowledge stores: KnowledgeItem (knowledge_base.py),                 *)
(* ChromaKnowledgeBase (chroma_knowledge.py) over a Chroma collection, and  *)
(* KnowledgeManager (knowledge_manager.py).                                 *)
(*                                                                         *)
(* A title, a category, a content and a custom metadata value are strings;  *)
(* a tag is a sequence of tokens in which "," and " " are tokens of their   *)
(* own, so that joining tags with "," and splitting them again is computed. *)
(***************************************************************************)

(* ---------------------------- KnowledgeItem ---------------------------- *)

\* Python's None, for an optional string
None == "<None>"

\* `not s` for an optional string
Falsy(s) == s = None \/ s = ""

\* datetime.now()
Now == "now"

\* KnowledgeItem(...) with __post_init__: a created_at of None becomes now
\* (tags and metadata are always passed as a list and a dict here)
KnowledgeItem(id, content, title, category, tags, metadata, created_at) ==
    [id |-> id, content |-> content, title |-> title, category |-> category,
     tags |-> tags, metadata |-> metadata,
     created_at |-> IF created_at = None THEN Now ELSE created_at]

\* datetime.isoformat()
IsoFormat(d) == <<"iso", d>>

\* datetime.fromisoformat(), None standing for its ValueError
FromIsoFormat(v) == IF Len(v) = 2 /\ v[1] = "iso" THEN v[2] ELSE None

(* ------------------------- ChromaKnowledgeBase ------------------------- *)

StandardFields == {"title", "category", "tags", "created_at"}

\* the metadata dict add_item stores with the document: the item's own
\* metadata is spread last
StoredMetadata(item) ==
    Merge([title |-> IF Falsy(item.title) THEN "" ELSE item.title,
           category |-> IF Falsy(item.category) THEN "" ELSE item.category,
           tags |-> IF item.tags # <<>> THEN Join(<<",">>, item.tags) ELSE <<>>,
           created_at |-> IF item.created_at # None
                          THEN IsoFormat(item.created_at) ELSE IsoFormat(Now)],
          item.metadata)

RECURSIVE Split(_, _)
\* s.split(sep) for a one-token separator
Split(s, sep) ==
    IF \A i \in 1..Len(s) : s[i] # sep THEN <<s>>
    ELSE LET i == CHOOSE k \in 1..Len(s) :
                      s[k] = sep /\ \A j \in 1..(k - 1) : s[j] # sep
         IN  <<SubSeq(s, 1, i - 1)>> \o Split(SubSeq(s, i + 1, Len(s)), sep)

RECURSIVE Strip(_)
\* s.strip()
Strip(s) ==
    IF s = <<>> THEN s
    ELSE IF Head(s) = " " THEN Strip(Tail(s))
    ELSE IF s[Len(s)] = " " THEN Strip(SubSeq(s, 1, Len(s) - 1))
    ELSE s

\* [tag.strip() for tag in stored.split(",") if tag.strip()], after the
\* `if metadata.get("tags")` test
ParseTags(stored) ==
    IF stored = <<>> THEN <<>>
    ELSE LET parts == Split(stored, ",")
             stripped == [i \in 1..Len(parts) |-> Strip(parts[i])]
         IN  SelectSeq(stripped, LAMBDA t : t # <<>>)

\* the KnowledgeItem built from a stored record (get_item lines 99-128, the
\* same code in search and list_items)
ItemOfRecord(rec) ==
    LET metadata == rec.metadata IN
    KnowledgeItem(
        rec.id,
        rec.document,
        IF Falsy(metadata.title) THEN None ELSE metadata.title,
        IF Falsy(metadata.category) THEN None ELSE metadata.category,
        ParseTags(metadata.tags),
        [k \in DOMAIN metadata \ StandardFields |-> metadata[k]],
        FromIsoFormat(metadata.created_at))

(* --------------------------- Chroma collection ------------------------- *)

\* the ids of the records of a collection
IdsOf(coll) == {coll[i].id : i \in 1..Len(coll)}

\* collection.get(ids=[id])
CollGet(coll, id) == SelectSeq(coll, LAMBDA r : r.id = id)

\* collection.delete(ids=ids): records with other ids stay, in order; an id
\* that is not there is not an error
CollDelete(coll, ids) == SelectSeq(coll, LAMBDA r : r.id \notin ids)

\* a record matches a where clause when every key of the clause has the
\* clause's value in the record's metadata
Matches(rec, where) ==
    \A k \in DOMAIN where : k \in DOMAIN rec.metadata /\ rec.metadata[k] = where[k]

\* collection.get(where=..., limit=..., offset=...): the matching records in
\* insertion order, offset skipped, at most limit kept
CollList(coll, where, limit, offset) ==
    LET matching == SelectSeq(coll, LAMBDA r : Matches(r, where))
        upto == IF offset + limit < Len(matching) THEN offset + limit ELSE Len(matching)
    IN  SubSeq(matching, offset + 1, upto)

RECURSIVE SortByDistance(_, _)
\* records ordered by ascending distance, ties in insertion order
SortByDistance(recs, distance) ==
    IF recs = <<>> THEN <<>>
    ELSE LET i == CHOOSE k \in 1..Len(recs) :
                      /\ \A j \in 1..Len(recs) : distance[recs[k].id] <= distance[recs[j].id]
                      /\ \A j \in 1..(k - 1) : distance[recs[j].id] > distance[recs[k].id]
         IN  <<recs[i]>> \o
             SortByDistance(SubSeq(recs, 1, i - 1) \o SubSeq(recs, i + 1, Len(recs)), distance)

\* collection.query(query_texts=[q], n_results=n, where=...): the n nearest
\* matching records, nearest first; distance gives each record's distance to
\* the query (in tenths)
CollQuery(coll, distance, n, where) ==
    LET matching == SelectSeq(coll, LAMBDA r : Matches(r, where))
        sorted == SortByDistance(matching, distance)
    IN  SubSeq(sorted, 1, IF n < Len(sorted) THEN n ELSE Len(sorted))

(* --------------------- ChromaKnowledgeBase methods --------------------- *)
(* Each method runs inside `try: ... except Exception`, so a failing call    *)
(* of the collection (fault) becomes the method's failure value.  A method   *)
(* that writes returns its value and the collection it leaves.  An optional  *)
(* item is <<>> for None and <<item>> otherwise.                             *)

NoItem == <<>>

\* 1.0, scores and distances being counted in tenths
ScoreOne == 10

\* the record collection.add stores for an item
RecordOf(item) ==
    [id |-> item.id, document |-> item.content, metadata |-> StoredMetadata(item)]

\* add_item: collection.add leaves a record whose id it already holds as it
\* is and does not raise
ChromaAddItem(coll, item, fault) ==
    IF fault THEN [ret |-> FALSE, coll |-> coll]
    ELSE IF item.id \in IdsOf(coll) THEN [ret |-> TRUE, coll |-> coll]
    ELSE [ret |-> TRUE, coll |-> Append(coll, RecordOf(item))]

\* get_item
ChromaGetItem(coll, item_id, fault) ==
    IF fault THEN NoItem
    ELSE LET result == CollGet(coll, item_id)
         IN  IF result = <<>> THEN NoItem ELSE <<ItemOfRecord(result[1])>>

\* search that hands back every matching record, whatever top_k
ChromaSearchUncapped(coll, distance, top_k, filter_dict, fault) ==
    IF fault THEN <<>>
    ELSE LET hits == CollQuery(coll, distance, Len(coll), filter_dict)
         IN  [idx \in 1..Len(hits) |->
                 [item |-> ItemOfRecord(hits[idx]),
                  score |-> ScoreOne - distance[hits[idx].id],
                  rank |-> idx]]

\* search: collection.query raises for n_results <= 0
ChromaSearch(coll, distance, top_k, filter_dict, fault) ==
    IF fault \/ top_k <= 0 THEN <<>>
    ELSE LET hits == CollQuery(coll, distance, top_k, filter_dict)
         IN  [idx \in 1..Len(hits) |->
                 [item |-> ItemOfRecord(hits[idx]),
                  score |-> ScoreOne - distance[hits[idx].id],
                  rank |-> idx]]

\* delete_item
ChromaDeleteItem(coll, item_id, fault) ==
    IF fault THEN [ret |-> FALSE, coll |-> coll]
    ELSE [ret |-> TRUE, coll |-> CollDelete(coll, {item_id})]

\* the item update_item builds from the existing item and the updates
UpdatedItem(existing_item, updates) ==
    LET Updated(field) ==
            IF field \in DOMAIN updates THEN updates[field] ELSE existing_item[field]
    IN  KnowledgeItem(
            existing_item.id,
            Updated("content"),
            Updated("title"),
            Updated("category"),
            Updated("tags"),
            Merge(existing_item.metadata,
                  IF "metadata" \in DOMAIN updates THEN updates.metadata ELSE EmptyMap),
            existing_item.created_at)

\* update_item: get, then delete (its result is not looked at), then add;
\* faults names which of the three collection calls fail
ChromaUpdateItem(coll, item_id, updates, faults) ==
    LET existing_item == ChromaGetItem(coll, item_id, faults.get)
    IN  IF existing_item = NoItem THEN [ret |-> FALSE, coll |-> coll]
        ELSE LET deleted == ChromaDeleteItem(coll, item_id, faults.delete)
             IN  ChromaAddItem(deleted.coll, UpdatedItem(existing_item[1], updates),
                               faults.add)

\* list_items without the category clause
ChromaListItemsAnyCategory(coll, category, tags, limit, offset, fault) ==
    IF fault THEN <<>>
    ELSE LET result == CollList(coll, EmptyMap, limit, offset)
             items == [i \in 1..Len(result) |-> ItemOfRecord(result[i])]
         IN  SelectSeq(items, LAMBDA item :
                 ~ (tags # <<>> /\ ~ \E i \in 1..Len(tags) :
                                        \E j \in 1..Len(item.tags) : tags[i] = item.tags[j]))

\* list_items: the category goes into the where clause, limit and offset go
\* to collection.get, the tags are tested on what came back
ChromaListItems(coll, category, tags, limit, offset, fault) ==
    IF fault THEN <<>>
    ELSE LET where_clause == IF Falsy(category) THEN EmptyMap
                             ELSE [k \in {"category"} |-> category]
             result == CollList(coll, where_clause, limit, offset)
             items == [i \in 1..Len(result) |-> ItemOfRecord(result[i])]
         IN  SelectSeq(items, LAMBDA item :
                 ~ (tags # <<>> /\ ~ \E i \in 1..Len(tags) :
                                        \E j \in 1..Len(item.tags) : tags[i] = item.tags[j]))

\* get_stats samples this many records at most
StatsSampleLimit == 100

\* get_stats (list(set) is kept as the set): the count of the collection,
\* and the categories and tags of the records that
\* collection.get(limit=min(100, count)) returns
ChromaGetStats(coll, collection_name, fault) ==
    IF fault THEN [total_items |-> 0, categories |-> {}, tags |-> {}]
    ELSE LET count == Len(coll)
             sample == SubSeq(coll, 1, IF StatsSampleLimit < count
                                       THEN StatsSampleLimit ELSE count)
         IN  [total_items |-> count,
              categories |-> {sample[i].metadata.category : i \in 1..Len(sample)} \ {""},
              tags |-> UNION {LET parsed == ParseTags(sample[i].metadata.tags)
                              IN  {parsed[j] : j \in 1..Len(parsed)} : i \in 1..Len(sample)},
              collection_name |-> collection_name]

\* clear
ChromaClear(coll, fault) ==
    IF fault THEN [ret |-> FALSE, coll |-> coll] ELSE [ret |-> TRUE, coll |-> <<>>]

(* --------------------------- KnowledgeManager -------------------------- *)
(* knowledge_bases maps a registered name to its store, a store being known *)
(* by the name of the Chroma collection it opened (get_or_create); configs   *)
(* maps the name to its config; collections holds the records of every      *)
(* collection of the Chroma client.  A manager method gives its return       *)
(* value, whether an exception left it, and the collections it leaves.       *)

Outcome(ret, raised, colls) == [ret |-> ret, raised |-> raised, collections |-> colls]

\* the collection behind a registered name
CollectionOf(kbs, colls, kb_name) == colls[kbs[kb_name].collection_name]

\* _create_chroma_knowledge_base: the collection named by connection_info,
\* the config's name by default
CreateChromaKnowledgeBase(config) ==
    [collection_name |-> IF "collection_name" \in DOMAIN config.connection_info
                         THEN config.connection_info.collection_name
                         ELSE config.name]

\* list_knowledge_bases
ListKnowledgeBases(kbs) == DOMAIN kbs

\* KnowledgeManager.add_item that calls the store without the None test
ManagerAddItemNoCheck(kbs, colls, kb_name, item, fault) ==
    IF kb_name \notin DOMAIN kbs THEN Outcome(FALSE, TRUE, colls)
    ELSE LET r == ChromaAddItem(CollectionOf(kbs, colls, kb_name), item, fault)
         IN  Outcome(r.ret, FALSE, [colls EXCEPT ![kbs[kb_name].collection_name] = r.coll])

\* KnowledgeManager.add_item
ManagerAddItem(kbs, colls, kb_name, item, fault) ==
    IF kb_name \notin DOMAIN kbs THEN Outcome(FALSE, FALSE, colls)
    ELSE LET r == ChromaAddItem(CollectionOf(kbs, colls, kb_name), item, fault)
         IN  Outcome(r.ret, FALSE, [colls EXCEPT ![kbs[kb_name].collection_name] = r.coll])

\* KnowledgeManager.get_item
ManagerGetItem(kbs, colls, kb_name, item_id, fault) ==
    IF kb_name \notin DOMAIN kbs THEN Outcome(NoItem, FALSE, colls)
    ELSE Outcome(ChromaGetItem(CollectionOf(kbs, colls, kb_name), item_id, fault),
                 FALSE, colls)

\* KnowledgeManager.search
ManagerSearch(kbs, colls, kb_name, distance, top_k, filter_dict, fault) ==
    IF kb_name \notin DOMAIN kbs THEN Outcome(<<>>, FALSE, colls)
    ELSE Outcome(ChromaSearch(CollectionOf(kbs, colls, kb_name), distance, top_k,
                              filter_dict, fault),
                 FALSE, colls)

\* the kb_names argument of search_all: None (also the default), or a list of
\* names, kept as the set of the names in it
NoKbNames == [given |-> FALSE]

GivenKbNames(names) == [given |-> TRUE, names |-> names]

\* the truth value Python gives the argument: None and the empty list are false
KbNamesTruthy(kb_names) == kb_names.given /\ kb_names.names # {}

\* search_all in which the failure of a store's search is not caught
ManagerSearchAllUncaught(kbs, colls, kb_names, distance, top_k, filter_dict, faults) ==
    LET search_kbs == IF KbNamesTruthy(kb_names) THEN kb_names.names
                      ELSE ListKnowledgeBases(kbs)
    IN  IF \E n \in search_kbs \cap DOMAIN kbs : faults[n]
        THEN Outcome(EmptyMap, TRUE, colls)
        ELSE Outcome([n \in search_kbs \cap DOMAIN kbs |->
                         ManagerSearch(kbs, colls, n, distance, top_k, filter_dict,
                                       FALSE).ret],
                     FALSE, colls)

\* KnowledgeManager.search_all: search_kbs = kb_names if kb_names else the
\* registered names; faults names the stores whose collection query fails
ManagerSearchAll(kbs, colls, kb_names, distance, top_k, filter_dict, faults) ==
    LET search_kbs == IF KbNamesTruthy(kb_names) THEN kb_names.names
                      ELSE ListKnowledgeBases(kbs)
    IN  Outcome([n \in search_kbs \cap DOMAIN kbs |->
                    ManagerSearch(kbs, colls, n, distance, top_k, filter_dict,
                                  faults[n]).ret],
                FALSE, colls)

\* KnowledgeManager.update_item
ManagerUpdateItem(kbs, colls, kb_name, item_id, updates, faults) ==
    IF kb_name \notin DOMAIN kbs THEN Outcome(FALSE, FALSE, colls)
    ELSE LET r == ChromaUpdateItem(CollectionOf(kbs, colls, kb_name), item_id,
                                   updates, faults)
         IN  Outcome(r.ret, FALSE, [colls EXCEPT ![kbs[kb_name].collection_name] = r.coll])

\* KnowledgeManager.delete_item
ManagerDeleteItem(kbs, colls, kb_name, item_id, fault) ==
    IF kb_name \notin DOMAIN kbs THEN Outcome(FALSE, FALSE, colls)
    ELSE LET r == ChromaDeleteItem(CollectionOf(kbs, colls, kb_name), item_id, fault)
         IN  Outcome(r.ret, FALSE, [colls EXCEPT ![kbs[kb_name].collection_name] = r.coll])

\* KnowledgeManager.list_items
ManagerListItems(kbs, colls, kb_name, category, tags, limit, offset, fault) ==
    IF kb_name \notin DOMAIN kbs THEN Outcome(<<>>, FALSE, colls)
    ELSE Outcome(ChromaListItems(CollectionOf(kbs, colls, kb_name), category, tags,
                                 limit, offset, fault),
                 FALSE, colls)

\* KnowledgeManager.get_stats(kb_name) for a name that is given (`if kb_name`)
ManagerGetStats(kbs, colls, kb_name, fault) ==
    IF kb_name \notin DOMAIN kbs THEN Outcome(EmptyMap, FALSE, colls)
    ELSE Outcome(ChromaGetStats(CollectionOf(kbs, colls, kb_name),
                                kbs[kb_name].collection_name, fault),
                 FALSE, colls)

\* A clear that empties every collection of the database.
ManagerClearEverything(kbs, colls, kb_name, fault) ==
    IF kb_name \notin DOMAIN kbs THEN Outcome(FALSE, FALSE, colls)
    ELSE IF fault THEN Outcome(FALSE, FALSE, colls)
    ELSE Outcome(TRUE, FALSE, [c \in DOMAIN colls |-> <<>>])

\* KnowledgeManager.clear
ManagerClear(kbs, colls, kb_name, fault) ==
    IF kb_name \notin DOMAIN kbs THEN Outcome(FALSE, FALSE, colls)
    ELSE LET r == ChromaClear(CollectionOf(kbs, colls, kb_name), fault)
         IN  Outcome(r.ret, FALSE, [colls EXCEPT ![kbs[kb_name].collection_name] = r.coll])

\* what a pass-through method leaves: the registry as it was, the outcome's
\* return value and collections, the call and the state before it recorded
Returns(op, outcome) ==
    /\ kb_prev' = KbSnapshot(knowledge_bases, configs, collections)
    /\ kb_op' = op
    /\ kb_ret' = outcome.ret
    /\ kb_raised' = outcome.raised
    /\ collections' = outcome.collections
    /\ UNCHANGED << knowledge_bases, configs, agent_vars, tm_vars, ca_vars, am_vars >>

\* add_knowledge_base that registers whatever the type is
ManagerAddKnowledgeBaseAnyType(kbs, cfgs, name, config, fault) ==
    IF ~ config.enable \/ fault
    THEN [ret |-> FALSE, raised |-> FALSE, knowledge_bases |-> kbs, configs |-> cfgs]
    ELSE [ret |-> TRUE, raised |-> FALSE,
          knowledge_bases |-> Put(kbs, name, CreateChromaKnowledgeBase(config)),
          configs |-> Put(cfgs, name, config)]

\* add_knowledge_base that unregisters the name when it fails
ManagerAddKnowledgeBaseDropping(kbs, cfgs, name, config, fault) ==
    IF ~ config.enable \/ config.type # "chroma" \/ fault
    THEN [ret |-> FALSE, raised |-> FALSE, knowledge_bases |-> Del(kbs, name),
          configs |-> Del(cfgs, name)]
    ELSE [ret |-> TRUE, raised |-> FALSE,
          knowledge_bases |-> Put(kbs, name, CreateChromaKnowledgeBase(config)),
          configs |-> Put(cfgs, name, config)]

\* KnowledgeManager.add_knowledge_base; fault: the store's constructor raises
ManagerAddKnowledgeBase(kbs, cfgs, name, config, fault) ==
    IF ~ config.enable
    THEN [ret |-> FALSE, raised |-> FALSE, knowledge_bases |-> kbs, configs |-> cfgs]
    ELSE IF config.type = "chroma"
    THEN IF fault
         THEN [ret |-> FALSE, raised |-> FALSE, knowledge_bases |-> kbs, configs |-> cfgs]
         ELSE [ret |-> TRUE, raised |-> FALSE,
               knowledge_bases |-> Put(kbs, name, CreateChromaKnowledgeBase(config)),
               configs |-> Put(cfgs, name, config)]
    ELSE [ret |-> FALSE, raised |-> FALSE, knowledge_bases |-> kbs, configs |-> cfgs]

(* ------------------------------- actions ------------------------------- *)

AddKnowledgeBase(name, config, fault) ==
    LET r == ManagerAddKnowledgeBase(knowledge_bases, configs, name, config, fault)
    IN  /\ kb_prev' = KbSnapshot(knowledge_bases, configs, collections)
        /\ kb_op' = [op |-> "add_knowledge_base", name |-> name, config |-> config,
                     fault |-> fault]
        /\ kb_ret' = r.ret
        /\ kb_raised' = r.raised
        /\ knowledge_bases' = r.knowledge_bases
        /\ configs' = r.configs
        /\ UNCHANGED << collections, agent_vars, tm_vars, ca_vars, am_vars >>

\* remove_knowledge_base that deletes the store and keeps its config
RemoveKnowledgeBaseStoreOnly(name) ==
    /\ kb_prev' = KbSnapshot(knowledge_bases, configs, collections)
    /\ kb_op' = [op |-> "remove_knowledge_base", name |-> name]
    /\ kb_raised' = FALSE
    /\ IF name \in DOMAIN knowledge_bases
       THEN /\ knowledge_bases' = Del(knowledge_bases, name)
            /\ kb_ret' = TRUE
            /\ UNCHANGED configs
       ELSE /\ kb_ret' = FALSE
            /\ UNCHANGED << knowledge_bases, configs >>
    /\ UNCHANGED << collections, agent_vars, tm_vars, ca_vars, am_vars >>

RemoveKnowledgeBase(name) ==
    /\ kb_prev' = KbSnapshot(knowledge_bases, configs, collections)
    /\ kb_op' = [op |-> "remove_knowledge_base", name |-> name]
    /\ kb_raised' = FALSE
    /\ IF name \in DOMAIN knowledge_bases
       THEN /\ knowledge_bases' = Del(knowledge_bases, name)
            /\ configs' = Del(configs, name)
            /\ kb_ret' = TRUE
       ELSE /\ kb_ret' = FALSE
            /\ UNCHANGED << knowledge_bases, configs >>
    /\ UNCHANGED << collections, agent_vars, tm_vars, ca_vars, am_vars >>

AddItem(kb_name, item, fault) ==
    Returns([op |-> "add_item", kb_name |-> kb_name, item |-> item, fault |-> fault],
            ManagerAddItem(knowledge_bases, collections, kb_name, item, fault))

GetItem(kb_name, item_id, fault) ==
    Returns([op |-> "get_item", kb_name |-> kb_name, item_id |-> item_id, fault |-> fault],
            ManagerGetItem(knowledge_bases, collections, kb_name, item_id, fault))

Search(kb_name, distance, top_k, filter_dict, fault) ==
    Returns([op |-> "search", kb_name |-> kb_name, distance |-> distance,
             top_k |-> top_k, filter_dict |-> filter_dict, fault |-> fault],
            ManagerSearch(knowledge_bases, collections, kb_name, distance, top_k,
                          filter_dict, fault))

SearchAll(kb_names, distance, top_k, filter_dict, faults) ==
    Returns([op |-> "search_all", kb_names |-> kb_names, distance |-> distance,
             top_k |-> top_k, filter_dict |-> filter_dict, faults |-> faults],
            ManagerSearchAll(knowledge_bases, collections, kb_names, distance, top_k,
                             filter_dict, faults))

UpdateItem(kb_name, item_id, updates, faults) ==
    Returns([op |-> "update_item", kb_name |-> kb_name, item_id |-> item_id,
             updates |-> updates, faults |-> faults],
            ManagerUpdateItem(knowledge_bases, collections, kb_name, item_id, updates,
                              faults))

DeleteItem(kb_name, item_id, fault) ==
    Returns([op |-> "delete_item", kb_name |-> kb_name, item_id |-> item_id,
             fault |-> fault],
            ManagerDeleteItem(knowledge_bases, collections, kb_name, item_id, fault))

ListItems(kb_name, category, tags, limit, offset, fault) ==
    Returns([op |-> "list_items", kb_name |-> kb_name, category |-> category,
             tags |-> tags, limit |-> limit, offset |-> offset, fault |-> fault],
            ManagerListItems(knowledge_bases, collections, kb_name, category, tags,
                             limit, offset, fault))

GetStats(kb_name, fault) ==
    Returns([op |-> "get_stats", kb_name |-> kb_name, fault |-> fault],
            ManagerGetStats(knowledge_bases, collections, kb_name, fault))

Clear(kb_name, fault) ==
    Returns([op |-> "clear", kb_name |-> kb_name, fault |-> fault],
            ManagerClear(knowledge_bases, collections, kb_name, fault))

(* ------------------------ the registry, explored ------------------------ *)
(* A manager to which stores are added and removed, and whose pass-through  *)
(* methods are called on registered and unregistered names.                 *)

\* the GraphAgent before any turn, with no prompt and no history
GraphNotStarted ==
    /\ system_prompt = <<>>
    /\ heap = [h |-> <<>>, m |-> <<>>]
    /\ pc = "input"
    /\ user_message = <<>>
    /\ state_messages = <<>>
    /\ request = <<>>
    /\ response = NoMessage
    /\ route = "none"
    /\ llm_calls = 0
    /\ run_log = <<>>
    /\ call_log = <<>>
    /\ run_results = <<>>
    /\ reply = <<>>
    /\ error = NoError
    /\ history_at_call = <<>>

\* that agent with its ToolManager's callables
AgentNotStarted == GraphNotStarted /\ callables = LoadedCallables

\* names a caller registers stores under, and a name it never registers
KbNames == CollectionNames
GhostName == "ghost"

\* KnowledgeType values configs come with: the supported one and one of the
\* others (FAISS and PINECONE take the same branch)
KnowledgeTypes == {"chroma", "faiss"}

\* configs without connection_info, and one that names its collection
Configs ==
    [name : KbNames, type : KnowledgeTypes, enable : BOOLEAN,
     connection_info : {EmptyMap}]
    \cup {[name |-> "kb1", type |-> "chroma", enable |-> TRUE,
           connection_info |-> [k \in {"collection_name"} |-> "kb2"]]}

ItemIds == {"a", "b"}

\* default arguments of the manager's methods
DefaultTopK == 10
DefaultLimit == 100
DefaultOffset == 0

PlainItem == KnowledgeItem("a", "apple", "t", "c1", << <<"t1">> >>, [k |-> "v"], "d1")

PlainUpdates == [content |-> "cherry"]

NoFaults == [get |-> FALSE, delete |-> FALSE, add |-> FALSE]

NoDistance == [i \in ItemIds |-> 0]

\* search_all without a subset, and with every list of registered and
\* unregistered names
KbNamesArgs ==
    {NoKbNames} \cup {GivenKbNames(names) : names \in SUBSET (KbNames \cup {GhostName})}

RegistryInit ==
    AgentNotStarted /\ ToolManagerLoaded /\ NoChatAgent /\ KnowledgeManagerInit
    /\ NoAgentManager

RegistryNext ==
    \/ \E name \in KbNames, config \in Configs, fault \in BOOLEAN :
           AddKnowledgeBase(name, config, fault)
    \/ \E name \in KbNames \cup {GhostName} : RemoveKnowledgeBase(name)
    \/ \E kb_name \in KbNames \cup {GhostName} :
           \/ AddItem(kb_name, PlainItem, FALSE)
           \/ GetItem(kb_name, "a", FALSE)
           \/ Search(kb_name, NoDistance, DefaultTopK, EmptyMap, FALSE)
           \/ UpdateItem(kb_name, "a", PlainUpdates, NoFaults)
           \/ DeleteItem(kb_name, "a", FALSE)
           \/ ListItems(kb_name, None, <<>>, DefaultLimit, DefaultOffset, FALSE)
           \/ GetStats(kb_name, FALSE)
           \/ Clear(kb_name, FALSE)
    \/ \E kb_names \in KbNamesArgs, faults \in [KbNames -> BOOLEAN] :
           SearchAll(kb_names, NoDistance, DefaultTopK, EmptyMap, faults)

SpecRegistry == RegistryInit /\ [][RegistryNext]_vars

(* -------------------------- one store, explored ------------------------- *)
(* The manager after add_knowledge_base("kb1", config) with an enabled       *)
(* Chroma config, its methods called on "kb1" with items of every shape and   *)
(* with collection calls that may fail.                                      *)

MaxTopK == 2
MaxLimit == 2
MaxOffset == 1
MaxDistance == 1

StoreConfig ==
    [name |-> "kb1", type |-> "chroma", enable |-> TRUE, connection_info |-> EmptyMap]

\* tags: plain ones, one holding a comma, one with a leading space
T1 == <<"t1">>
T2 == <<"t2">>
CommaTag == <<"t1", ",", "t2">>
SpacedTag == <<" ", "t1">>

CommaTagItem == KnowledgeItem("a", "apple", "t", "c1", <<CommaTag>>, EmptyMap, "d1")
SpacedTagItem == KnowledgeItem("a", "apple", "t", "c1", <<SpacedTag>>, EmptyMap, "d1")
EmptyTitleItem == KnowledgeItem("a", "apple", "", "c1", <<T1>>, EmptyMap, "d1")
ClashItem ==
    KnowledgeItem("a", "apple", "t", "c1", <<T1>>, [k \in {"category"} |-> "c2"], "d1")
OtherItem == KnowledgeItem("b", "banana", None, "c2", <<T1, T2>>, EmptyMap, None)

StoreItems ==
    {PlainItem, CommaTagItem, SpacedTagItem, EmptyTitleItem, ClashItem, OtherItem}

StoreUpdates ==
    {[content |-> "cherry", metadata |-> [k |-> "w"]],
     [metadata |-> [k \in {"category"} |-> "c2"]]}

Distances == [ItemIds -> 0..MaxDistance]

Filters == {EmptyMap, [k \in {"category"} |-> "c1"]}

TopKs == (0..MaxTopK) \cup {DefaultTopK}

Categories == {None, "c1", "c2"}

TagFilters == {<<>>, <<T1>>, <<T2, CommaTag>>}

Limits == (1..MaxLimit) \cup {DefaultLimit}

Offsets == 0..MaxOffset

UpdateFaults == [get : BOOLEAN, delete : BOOLEAN, add : BOOLEAN]

StoreInit ==
    /\ NoAgentManager
    /\ AgentNotStarted
    /\ ToolManagerLoaded
    /\ NoChatAgent
    /\ knowledge_bases = Put(EmptyMap, "kb1", CreateChromaKnowledgeBase(StoreConfig))
    /\ configs = Put(EmptyMap, "kb1", StoreConfig)
    /\ collections = [c \in CollectionNames |-> <<>>]
    /\ kb_op = [op |-> "add_knowledge_base", name |-> "kb1", config |-> StoreConfig,
                fault |-> FALSE]
    /\ kb_ret = TRUE
    /\ kb_raised = FALSE
    /\ kb_prev = KbSnapshot(EmptyMap, EmptyMap, [c \in CollectionNames |-> <<>>])

StoreNext ==
    \/ \E item \in StoreItems, fault \in BOOLEAN : AddItem("kb1", item, fault)
    \/ \E item_id \in ItemIds, fault \in BOOLEAN : GetItem("kb1", item_id, fault)
    \/ \E item_id \in ItemIds, updates \in StoreUpdates, faults \in UpdateFaults :
           UpdateItem("kb1", item_id, updates, faults)
    \/ \E item_id \in ItemIds, fault \in BOOLEAN : DeleteItem("kb1", item_id, fault)
    \/ \E fault \in BOOLEAN : GetStats("kb1", fault)
    \/ \E fault \in BOOLEAN : Clear("kb1", fault)

SpecStore == StoreInit /\ [][StoreNext]_vars

(* ------------------------ one store, queried --------------------------- *)
(* The same store, filled and emptied item by item, and read with search    *)
(* and list_items under every argument and with collection calls that may   *)
(* fail.                                                                    *)

QueryItems == {PlainItem, CommaTagItem, ClashItem, OtherItem}

QueryNext ==
    \/ \E item \in QueryItems : AddItem("kb1", item, FALSE)
    \/ \E item_id \in ItemIds : DeleteItem("kb1", item_id, FALSE)
    \/ \E distance \in Distances, top_k \in TopKs, filter_dict \in Filters,
          fault \in BOOLEAN :
           Search("kb1", distance, top_k, filter_dict, fault)
    \/ \E category \in Categories, tags \in TagFilters, limit \in Limits,
          offset \in Offsets, fault \in BOOLEAN :
           ListItems("kb1", category, tags, limit, offset, fault)

SpecQuery == StoreInit /\ [][QueryNext]_vars

(* ------------------- properties of the registry (C11-C14) --------------- *)

\* the collection a name was registered for before the recorded call
PrevCollectionOf(kb_name) ==
    CollectionOf(kb_prev.knowledge_bases, kb_prev.collections, kb_name)

\* C11: search_all called without a subset returns a mapping with exactly one
\* entry per registered store, without raising, even when the search of some
\* store fails inside: that store's entry is the empty list, and every other
\* store's entry is what its own search returns.
C11_SearchAllOneEntryPerStore ==
    (kb_op.op = "search_all" /\ ~ kb_op.kb_names.given) =>
        /\ ~ kb_raised
        /\ DOMAIN kb_ret = DOMAIN kb_prev.knowledge_bases
        /\ \A n \in DOMAIN kb_prev.knowledge_bases :
               kb_ret[n] = IF kb_op.faults[n] THEN <<>>
                           ELSE ChromaSearch(PrevCollectionOf(n), kb_op.distance,
                                             kb_op.top_k, kb_op.filter_dict, FALSE)

\* two stores are registered, the search of one fails and the other one's
\* search returns a result
C11_Witness ==
    /\ kb_op.op = "search_all" /\ ~ kb_op.kb_names.given
    /\ DOMAIN kb_prev.knowledge_bases = KbNames
    /\ \E n, o \in DOMAIN kb_ret :
           /\ kb_op.faults[n] /\ kb_ret[n] = <<>>
           /\ ~ kb_op.faults[o] /\ kb_ret[o] # <<>>

\* the pass-through methods and what each returns for a name it cannot find
PassThroughOps ==
    {"add_item", "get_item", "search", "update_item", "delete_item", "list_items",
     "get_stats", "clear"}

NotFoundSentinel(op) ==
    CASE op \in {"add_item", "update_item", "delete_item", "clear"} -> FALSE
      [] op = "get_item" -> NoItem
      [] op \in {"search", "list_items"} -> <<>>
      [] op = "get_stats" -> EmptyMap

C13_RegistrationFailureIsFalse ==
    (/\ kb_op.op = "add_knowledge_base"
     /\ (kb_op.config.type # "chroma" \/ kb_op.fault)) =>
        /\ kb_ret = FALSE
        /\ ~ kb_raised
        /\ knowledge_bases = kb_prev.knowledge_bases
        /\ configs = kb_prev.configs

\* an enabled config of an unsupported type is refused for a name that is
\* registered already
C13_Witness ==
    /\ kb_op.op = "add_knowledge_base"
    /\ kb_op.config.enable /\ kb_op.config.type = "faiss"
    /\ kb_op.name \in DOMAIN kb_prev.knowledge_bases
    /\ kb_ret = FALSE

\* C14: add_knowledge_base with a disabled config is accepted (it does not
\* report failure) and opens no store.
C14_DisabledConfigAccepted ==
    (kb_op.op = "add_knowledge_base" /\ ~ kb_op.config.enable) =>
        /\ kb_ret = TRUE
        /\ knowledge_bases = kb_prev.knowledge_bases

(* --------------------- properties of a store (C15-C20) ------------------ *)

\* the store's collection before and after the recorded call
PrevColl == PrevCollectionOf("kb1")
CurrColl == CollectionOf(knowledge_bases, collections, "kb1")

\* what get_item gives for an id before and after the recorded call, no
\* collection call failing
PrevItem(item_id) == ChromaGetItem(PrevColl, item_id, FALSE)
CurrItem(item_id) == ChromaGetItem(CurrColl, item_id, FALSE)

\* C15: add_item with an id the store already holds reports failure, and the
\* stored item and the number of items stay as they were.
C15_DuplicateAddFails ==
    (kb_op.op = "add_item" /\ kb_op.item.id \in IdsOf(PrevColl)) =>
        /\ kb_ret = FALSE
        /\ CurrItem(kb_op.item.id) = PrevItem(kb_op.item.id)
        /\ Len(CurrColl) = Len(PrevColl)

\* two items are equal in content, title, category, tags and metadata
SameFields(x, y) ==
    /\ x.content = y.content
    /\ x.title = y.title
    /\ x.category = y.category
    /\ x.tags = y.tags
    /\ x.metadata = y.metadata

\* C16: after a successful add_item of an item with a new id, get_item of
\* that id returns an item equal to the added one in content, title,
\* category, tags and metadata.
C16_AddGetRoundTrip ==
    (/\ kb_op.op = "add_item" /\ kb_ret = TRUE
     /\ kb_op.item.id \notin IdsOf(PrevColl)) =>
        /\ CurrItem(kb_op.item.id) # NoItem
        /\ SameFields(CurrItem(kb_op.item.id)[1], kb_op.item)

\* C17: a list returned by search has at most top_k entries (none for
\* top_k = 0), ranks 1..N in list order and scores that do not increase; a
\* store holding one item returns exactly that item with rank 1 when the
\* query matches it, top_k is 1 or more and the collection call succeeds.
C17_SearchRanked ==
    kb_op.op = "search" =>
        /\ Len(kb_ret) <= kb_op.top_k
        /\ \A i \in 1..Len(kb_ret) : kb_ret[i].rank = i
        /\ \A i \in 1..(Len(kb_ret) - 1) : kb_ret[i].score >= kb_ret[i + 1].score
        /\ (/\ Len(PrevColl) = 1 /\ Matches(PrevColl[1], kb_op.filter_dict)
            /\ kb_op.top_k >= 1 /\ ~ kb_op.fault) =>
               /\ Len(kb_ret) = 1
               /\ kb_ret[1].item.id = PrevColl[1].id
               /\ kb_ret[1].rank = 1

\* a search returns two results, the item stored second ranked first with the
\* higher score
C17_Witness ==
    /\ kb_op.op = "search"
    /\ Len(kb_ret) = 2
    /\ kb_ret[1].item.id = PrevColl[2].id
    /\ kb_ret[1].score > kb_ret[2].score

NamedMetadataKeys(updates) ==
    IF "metadata" \in DOMAIN updates THEN DOMAIN updates.metadata ELSE {}

\* C18: a successful update_item leaves the id, created_at, each of content,
\* title, category and tags that the updates do not name, and each metadata
\* key that updates["metadata"] does not name as they were, and touches no
\* other item; update_item on an id the store does not hold returns False and
\* leaves the store as it was.
C18_UpdateChangesOnlyNamed ==
    kb_op.op = "update_item" =>
        /\ kb_ret = TRUE =>
               /\ PrevItem(kb_op.item_id) # NoItem
               /\ CurrItem(kb_op.item_id) # NoItem
               /\ LET before == PrevItem(kb_op.item_id)[1]
                      after == CurrItem(kb_op.item_id)[1]
                      kept == DOMAIN before.metadata \ NamedMetadataKeys(kb_op.updates)
                  IN  /\ after.id = before.id
                      /\ after.created_at = before.created_at
                      /\ \A f \in {"content", "title", "category", "tags"} \ DOMAIN kb_op.updates :
                             after[f] = before[f]
                      /\ \A k \in kept :
                             k \in DOMAIN after.metadata /\ after.metadata[k] = before.metadata[k]
               /\ \A o \in ItemIds \ {kb_op.item_id} : CurrItem(o) = PrevItem(o)
        /\ kb_op.item_id \notin IdsOf(PrevColl) =>
               kb_ret = FALSE /\ collections = kb_prev.collections

\* C19: delete_item on an id the store does not hold returns False, raises
\* nothing and leaves the store as it was (so a second delete of an id fails).
C19_DeleteAbsentFails ==
    (kb_op.op = "delete_item" /\ kb_op.item_id \notin IdsOf(PrevColl)) =>
        /\ kb_ret = FALSE
        /\ ~ kb_raised
        /\ collections = kb_prev.collections

(***************************************************************************)
(* ToolManager construction (tool_manager.py): _load_tools over a list of   *)
(* config paths, then the manager's methods.                                *)
(***************************************************************************)

MaxPaths == 3

\* the paths a caller may list: the files on disk and one that is not there
Paths == DOMAIN ToolConfigFiles \cup {"missing.yaml"}

\* names asked for after construction: loaded ones, one whose import failed,
\* one no file mentions
ToolNames == {"echo", "boom", "ghost", "nope"}

\* a module, object or tool name as a string: a name is one token
NameOf(tokens) == IF tokens = <<>> THEN "" ELSE tokens[1]

\* _dynamic_import(plugin_path): the object, or ImportError when the path does
\* not split in two at ":", the module cannot be imported or lacks the object
DynamicImport(plugin_path) ==
    LET parts == Split(plugin_path, ":") IN
    IF Len(parts) # 2 THEN [kind |-> "raise", value |-> "ImportError"]
    ELSE IF NameOf(parts[1]) \notin DOMAIN Modules
    THEN [kind |-> "raise", value |-> "ImportError"]
    ELSE IF NameOf(parts[2]) \notin Modules[NameOf(parts[1])]
    THEN [kind |-> "raise", value |-> "ImportError"]
    ELSE [kind |-> "return", value |-> NameOf(parts[2])]

\* One pass of the loop without its try/except: a failure leaves the
\* constructor.
LoadOneUncaught(m, path) ==
    IF path \notin DOMAIN ToolConfigFiles THEN [m EXCEPT !.raised = TRUE]
    ELSE LET config == ToolConfigFiles[path]
             parts == Split(config.py_plugin, ":")
         IN  IF config.py_plugin = <<>> THEN m
             ELSE IF Len(parts) < 2 THEN [m EXCEPT !.raised = TRUE]
             ELSE LET tool_name == NameOf(parts[2])
                      imported == DynamicImport(config.py_plugin)
                  IN  IF imported.kind = "raise"
                      THEN [m EXCEPT !.tools = Put(@, tool_name, config),
                                     !.raised = TRUE]
                      ELSE [m EXCEPT !.tools = Put(@, tool_name, config),
                                     !.callables = Put(@, tool_name, imported.value)]

\* one pass of the loop of _load_tools: the config is loaded; without a
\* plugin reference it is skipped; else the tool's name is taken from the
\* reference, self.tools[name] is set, the reference is imported and
\* self.callables[name] is set; any exception on the way ends the pass
LoadOne(m, path) ==
    IF path \notin DOMAIN ToolConfigFiles THEN m
    ELSE LET config == ToolConfigFiles[path]
             parts == Split(config.py_plugin, ":")
         IN  IF config.py_plugin = <<>> THEN m
             ELSE IF Len(parts) < 2 THEN m
             ELSE LET tool_name == NameOf(parts[2])
                      imported == DynamicImport(config.py_plugin)
                  IN  IF imported.kind = "raise"
                      THEN [m EXCEPT !.tools = Put(@, tool_name, config)]
                      ELSE [m EXCEPT !.tools = Put(@, tool_name, config),
                                     !.callables = Put(@, tool_name, imported.value)]

RECURSIVE LoadTools(_, _)
\* _load_tools: the passes in the order of the list, until one raises
LoadTools(m, paths) ==
    IF paths = <<>> \/ m.raised THEN m
    ELSE LoadTools(LoadOne(m, Head(paths)), Tail(paths))

\* list_tools (the list's order is not kept)
ListToolsOf(m) == DOMAIN m.callables

\* get_tool_schema
GetToolSchemaOf(m, tool_name) ==
    IF tool_name \notin DOMAIN m.tools
    THEN [kind |-> "raise", value |-> "ValueError"]
    ELSE [kind |-> "return", value |-> m.tools[tool_name].schema_def]

\* get_langchain_tools: one adapter per entry of self.tools, built from
\* self.callables[name]
GetLangchainToolsOf(m) ==
    IF \E name \in DOMAIN m.tools : name \notin DOMAIN m.callables
    THEN [kind |-> "raise", value |-> "KeyError"]
    ELSE [kind |-> "return",
          value |-> {[name |-> name, description |-> m.tools[name].description,
                      func |-> m.callables[name]] : name \in DOMAIN m.tools}]

\* A run_tool that forgets a tool whose callable raised.
ManagerAfterRunToolEvict(m, tool_name, kwargs) ==
    IF tool_name \in DOMAIN m.callables
       /\ CallPlugin(m.callables[tool_name], kwargs).kind = "raise"
    THEN [m EXCEPT !.callables = Del(@, tool_name)]
    ELSE m

\* the maps run_tool leaves: it assigns neither
ManagerAfterRunTool(m, tool_name, kwargs) == m

(* ------------------------------- actions ------------------------------- *)

NewManager == [tools |-> EmptyMap, callables |-> EmptyMap, raised |-> FALSE]

\* ToolManager(tool_config_paths)
Construct ==
    /\ tm_phase = "new"
    /\ LET m == LoadTools(NewManager, tool_config_paths) IN
       /\ tools' = m.tools
       /\ callables' = m.callables
       /\ tm_built' = [tools |-> m.tools, callables |-> m.callables]
       /\ tm_phase' = IF m.raised THEN "failed" ELSE "ready"
       /\ tm_ret' = [kind |-> IF m.raised THEN "raise" ELSE "return", value |-> <<>>]
    /\ tm_op' = [op |-> "__init__"]
    /\ UNCHANGED << tool_config_paths, graph_vars, kb_vars, ca_vars, am_vars >>

ListTools ==
    /\ tm_phase = "ready"
    /\ tm_op' = [op |-> "list_tools"]
    /\ tm_ret' = [kind |-> "return",
                  value |-> ListToolsOf([tools |-> tools, callables |-> callables])]
    /\ UNCHANGED << tools, callables, tool_config_paths, tm_phase, tm_built,
                    graph_vars, kb_vars, ca_vars, am_vars >>

GetToolSchema(tool_name) ==
    /\ tm_phase = "ready"
    /\ tm_op' = [op |-> "get_tool_schema", tool_name |-> tool_name]
    /\ tm_ret' = GetToolSchemaOf([tools |-> tools, callables |-> callables], tool_name)
    /\ UNCHANGED << tools, callables, tool_config_paths, tm_phase, tm_built,
                    graph_vars, kb_vars, ca_vars, am_vars >>

GetLangchainTools ==
    /\ tm_phase = "ready"
    /\ tm_op' = [op |-> "get_langchain_tools"]
    /\ tm_ret' = GetLangchainToolsOf([tools |-> tools, callables |-> callables])
    /\ UNCHANGED << tools, callables, tool_config_paths, tm_phase, tm_built,
                    graph_vars, kb_vars, ca_vars, am_vars >>

RunToolCall(tool_name, kwargs) ==
    /\ tm_phase = "ready"
    /\ tm_op' = [op |-> "run_tool", tool_name |-> tool_name, kwargs |-> kwargs]
    /\ LET r == RunTool(callables, tool_name, kwargs)
           m == ManagerAfterRunTool([tools |-> tools, callables |-> callables],
                                    tool_name, kwargs)
       IN  /\ tm_ret' = [kind |-> r.kind, value |-> r.value]
           /\ tools' = m.tools
           /\ callables' = m.callables
    /\ UNCHANGED << tool_config_paths, tm_phase, tm_built, graph_vars, kb_vars, ca_vars, am_vars >>

ToolsInit ==
    /\ NoAgentManager
    /\ GraphNotStarted
    /\ NoChatAgent
    /\ KnowledgeManagerInit
    /\ tools = EmptyMap
    /\ callables = EmptyMap
    /\ tool_config_paths \in BoundedSeq(Paths, MaxPaths)
    /\ tm_phase = "new"
    /\ tm_built = [tools |-> EmptyMap, callables |-> EmptyMap]
    /\ tm_op = NoOp
    /\ tm_ret = [kind |-> "return", value |-> <<>>]

ToolsNext ==
    \/ Construct
    \/ ListTools
    \/ \E tool_name \in ToolNames : GetToolSchema(tool_name)
    \/ GetLangchainTools
    \/ \E tool_name \in ToolNames : RunToolCall(tool_name, [x |-> "hi"])

SpecTools == ToolsInit /\ [][ToolsNext]_vars

(* ------------------- properties of the ToolManager (C21-C23) ------------ *)

\* the listed paths whose file loads and whose plugin reference resolves
ResolvingPaths ==
    {tool_config_paths[i] : i \in 1..Len(tool_config_paths)}
        \cap {path \in DOMAIN ToolConfigFiles :
                 /\ ToolConfigFiles[path].py_plugin # <<>>
                 /\ DynamicImport(ToolConfigFiles[path].py_plugin).kind = "return"}

\* the tool name of such a path, and the object its reference names
ResolvedName(path) == DynamicImport(ToolConfigFiles[path].py_plugin).value

\* C21: the constructor never raises, whatever the listed descriptors are;
\* list_tools() returns exactly the tool names of the listed descriptors whose
\* reference resolves, each bound to the object it names, wherever the
\* descriptors without a reference, with an unresolvable reference or with an
\* unloadable file stand in the list.
C21_BadDescriptorIsolated ==
    tm_phase # "new" =>
        /\ tm_phase = "ready"
        /\ ListToolsOf([tools |-> tools, callables |-> callables])
               = {ResolvedName(path) : path \in ResolvingPaths}
        /\ \A path \in ResolvingPaths :
               callables[ResolvedName(path)] = ResolvedName(path)

\* a manager constructed from an unresolvable descriptor, a resolvable one and
\* a file that cannot be loaded, in this order, holds the resolvable tool
C21_Witness ==
    /\ tm_phase = "ready"
    /\ tool_config_paths = <<"ghost.yaml", "echo.yaml", "missing.yaml">>
    /\ DOMAIN callables = {"echo"}

\* C22: after construction the names holding a descriptor are the names
\* holding a callable: get_tool_schema(name) returns exactly for the names
\* list_tools() returns and raises its not-found error for any other, and
\* get_langchain_tools() returns one adapter per listed tool without raising.
C22_DescriptorsMatchCallables ==
    tm_phase = "ready" =>
        /\ DOMAIN tools = DOMAIN callables
        /\ tm_op.op = "get_tool_schema" =>
               (tm_ret.kind = "return" <=> tm_op.tool_name \in DOMAIN callables)
        /\ tm_op.op = "get_langchain_tools" =>
               /\ tm_ret.kind = "return"
               /\ {t.name : t \in tm_ret.value} = DOMAIN callables

\* C23: no call of list_tools, get_tool_schema, get_langchain_tools or
\* run_tool changes the descriptor map or the callable map: both are as the
\* constructor left them, also after calls that raised and after calls whose
\* callable raised.
C23_NotMutatedAfterConstruction ==
    tm_phase = "ready" =>
        /\ tools = tm_built.tools
        /\ callables = tm_built.callables

\* run_tool ran a loaded tool whose callable raised
C23_Witness ==
    /\ tm_phase = "ready"
    /\ tm_op.op = "run_tool"
    /\ tm_op.tool_name \in DOMAIN callables
    /\ CallPlugin(callables[tm_op.tool_name], tm_op.kwargs).kind = "raise"
    /\ tm_ret.kind = "return"

(***************************************************************************)
(* The conversational agents: ChatAgent (chat_agent.py), which calls the    *)
(* model, and SimpleChatAgent (simple_chat.py), which makes its reply up.   *)
(* ChatAgent keeps messages in chat_history, SimpleChatAgent keeps dicts of  *)
(* role and content.                                                        *)
(***************************************************************************)

\* chat is not called on a history longer than this
MaxChatLen == 4

\* {"role": role, "content": content}
Entry(role, content) == [role |-> role, content |-> content]

\* what response.content may be: a string, or a list of parts that are
\* strings or dicts with a text field
StrContent(text) == [kind |-> "str", text |-> text]
ListContent(parts) == [kind |-> "list", parts |-> parts]

\* ChatAgent._extract_content: a string as it is, the texts of a list's
\* parts joined with ' '
ExtractContent(content) ==
    IF content.kind = "str" THEN content.text
    ELSE Join(<<" ">>, [i \in 1..Len(content.parts) |-> content.parts[i].text])

\* what chat_model.invoke may do: answer with a content, or raise
ModelOutcomes ==
    {[kind |-> "return", content |-> c] :
         c \in {StrContent(<<"hi">>),
                ListContent(<<[kind |-> "str", text |-> <<"a">>],
                              [kind |-> "dict", text |-> <<"b">>]>>)}}
    \cup {[kind |-> "raise", value |-> <<"API Error">>]}

\* A chat that stores the raw first part of a list content.
ChatAgentChatRawContent(chat_history, message, outcome) ==
    LET with_user == Append(chat_history, HumanMessage(message)) IN
    IF outcome.kind = "return"
    THEN [history |-> Append(with_user,
                             AIMessage(IF outcome.content.kind = "str"
                                       THEN outcome.content.text
                                       ELSE outcome.content.parts[1].text, <<>>)),
          value |-> ExtractContent(outcome.content), raised |-> FALSE, invoked |-> 1]
    ELSE [history |-> with_user,
          value |-> <<"chat error", ": ">> \o outcome.value,
          raised |-> FALSE, invoked |-> 1]

\* A chat without the try/except around the model call.
ChatAgentChatUncaught(chat_history, message, outcome) ==
    LET with_user == Append(chat_history, HumanMessage(message)) IN
    IF outcome.kind = "return"
    THEN [history |-> Append(with_user, AIMessage(ExtractContent(outcome.content), <<>>)),
          value |-> ExtractContent(outcome.content), raised |-> FALSE, invoked |-> 1]
    ELSE [history |-> with_user, value |-> outcome.value, raised |-> TRUE, invoked |-> 1]

\* ChatAgent.chat: the user message is appended, the model is invoked once
\* with the history; its extracted content is appended as an AIMessage and
\* returned, or its exception is turned into the returned error text
ChatAgentChat(chat_history, message, outcome) ==
    LET with_user == Append(chat_history, HumanMessage(message)) IN
    IF outcome.kind = "return"
    THEN [history |-> Append(with_user, AIMessage(ExtractContent(outcome.content), <<>>)),
          value |-> ExtractContent(outcome.content), raised |-> FALSE, invoked |-> 1]
    ELSE [history |-> with_user,
          value |-> <<"chat error", ": ">> \o outcome.value,
          raised |-> FALSE, invoked |-> 1]

\* A SimpleChatAgent.chat whose reply leaves the agent's name out.
SimpleChatNoName(chat_history, name, message) ==
    LET response_text == <<"I received your message: ">> \o message IN
    [history |-> chat_history \o <<Entry("user", message), Entry("assistant", response_text)>>,
     value |-> response_text, raised |-> FALSE, invoked |-> 0]

\* SimpleChatAgent.chat: two entries appended, the reply made of the agent's
\* name and the message
SimpleChat(chat_history, name, message) ==
    LET response_text == <<"I am ">> \o name \o <<", I received your message: ">> \o message IN
    [history |-> chat_history \o <<Entry("user", message), Entry("assistant", response_text)>>,
     value |-> response_text, raised |-> FALSE, invoked |-> 0]

\* A reset that leaves the system prompt out.
ChatAgentResetEmpty(system_prompt_) == <<>>

\* ChatAgent.reset_history: the history it leaves
ChatAgentReset(system_prompt_) ==
    IF system_prompt_ # <<>> THEN <<SystemMessage(system_prompt_)>> ELSE <<>>

\* SimpleChatAgent.reset_history: the history it leaves
SimpleReset(system_prompt_) ==
    IF system_prompt_ # <<>> THEN <<Entry("system", system_prompt_)>> ELSE <<>>

RECURSIVE ChatAgentGetHistory(_)
\* ChatAgent.get_history: a new list with a dict for each HumanMessage,
\* AIMessage and SystemMessage
ChatAgentGetHistory(chat_history) ==
    IF chat_history = <<>> THEN <<>>
    ELSE LET message == Head(chat_history)
             rest == ChatAgentGetHistory(Tail(chat_history))
         IN  IF message.type = "human" THEN <<Entry("user", message.content)>> \o rest
             ELSE IF message.type = "ai" THEN <<Entry("assistant", message.content)>> \o rest
             ELSE IF message.type = "system" THEN <<Entry("system", message.content)>> \o rest
             ELSE rest

\* yaml.dump of the history: one mapping per entry, its keys in sorted order
YamlDump(entries) ==
    [i \in 1..Len(entries) |-> <<"content", entries[i].content, "role", entries[i].role>>]

\* yaml.safe_load of such a document: new dicts in a new list
YamlLoad(document) ==
    [i \in 1..Len(document) |->
        [k \in {document[i][1], document[i][3]} |->
            IF k = document[i][1] THEN document[i][2] ELSE document[i][4]]]

RECURSIVE ChatAgentLoadAppending(_, _)
\* A load that adds the file's messages to the history it finds.
ChatAgentLoadAppending(chat_history, loaded) ==
    IF loaded = <<>> THEN chat_history
    ELSE ChatAgentLoadAppending(
             IF Head(loaded).role = "user"
             THEN Append(chat_history, HumanMessage(Head(loaded).content))
             ELSE IF Head(loaded).role = "assistant"
             THEN Append(chat_history, AIMessage(Head(loaded).content, <<>>))
             ELSE IF Head(loaded).role = "system"
             THEN Append(chat_history, SystemMessage(Head(loaded).content))
             ELSE chat_history,
             Tail(loaded))

RECURSIVE ChatAgentLoad(_, _)
\* ChatAgent.load_conversation: from an empty history, a message for each
\* loaded entry whose role is user, assistant or system
ChatAgentLoad(chat_history, loaded) ==
    IF loaded = <<>> THEN <<>>
    ELSE LET msg == loaded[Len(loaded)]
             before == ChatAgentLoad(chat_history, SubSeq(loaded, 1, Len(loaded) - 1))
         IN  IF msg.role = "user" THEN Append(before, HumanMessage(msg.content))
             ELSE IF msg.role = "assistant" THEN Append(before, AIMessage(msg.content, <<>>))
             ELSE IF msg.role = "system" THEN Append(before, SystemMessage(msg.content))
             ELSE before

\* the list get_history hands out is the agent's own list
HistoryRefAliased == "own"

\* SimpleChatAgent.get_history: self.chat_history.copy(), a new list object
HistoryRef == "got"

\* the frame of every call on a conversational agent
OtherUnchanged == UNCHANGED << ca_kind, ca_config, agent_vars, kb_vars, tm_vars, am_vars >>

\* one more call of the given sort (the count stops at MaxChatLen, which no
\* run of chat calls alone exceeds)
Counted(sort) == [ca_turns EXCEPT ![sort] = IF @ < MaxChatLen THEN @ + 1 ELSE @]

\* agent.chat(message) on a ChatAgent whose model call ends as outcome
ChatAgentChatCall(message, outcome) ==
    /\ ca_kind = "ChatAgent"
    /\ Len(ca_heap.own) < MaxChatLen
    /\ LET r == ChatAgentChat(ca_heap.own, message, outcome) IN
        /\ ca_heap' = [ca_heap EXCEPT !.own = r.history]
        /\ ca_op' = [op |-> "chat", message |-> message, outcome |-> outcome,
                     invoked |-> r.invoked,
                     request |-> Append(ca_heap.own, HumanMessage(message))]
        /\ ca_ret' = [value |-> r.value, raised |-> r.raised]
    /\ ca_prev' = ca_heap.own
    /\ ca_turns' = Counted(IF outcome.kind = "return" THEN "ok" ELSE "failed")
    /\ UNCHANGED << ca_got, ca_file >>
    /\ OtherUnchanged

\* agent.chat(message) on a SimpleChatAgent
SimpleChatCall(message) ==
    /\ ca_kind = "SimpleChatAgent"
    /\ Len(ca_heap.own) < MaxChatLen
    /\ LET r == SimpleChat(ca_heap.own, ca_config.name, message) IN
        /\ ca_heap' = [ca_heap EXCEPT !.own = r.history]
        /\ ca_op' = [op |-> "chat", message |-> message, invoked |-> r.invoked]
        /\ ca_ret' = [value |-> r.value, raised |-> r.raised]
    /\ ca_prev' = ca_heap.own
    /\ ca_turns' = Counted("ok")
    /\ UNCHANGED << ca_got, ca_file >>
    /\ OtherUnchanged

\* agent.reset_history()
ResetHistory ==
    /\ ca_kind # "none"
    /\ ca_heap' = [ca_heap EXCEPT !.own =
                      IF ca_kind = "ChatAgent"
                      THEN ChatAgentReset(ca_config.system_prompt)
                      ELSE SimpleReset(ca_config.system_prompt)]
    /\ ca_op' = [op |-> "reset_history"]
    /\ ca_ret' = [value |-> <<>>, raised |-> FALSE]
    /\ ca_prev' = ca_heap.own
    /\ ca_turns' = Counted("other")
    /\ UNCHANGED << ca_got, ca_file >>
    /\ OtherUnchanged

\* agent.save_conversation(file_path): the history, as get_history gives it
\* for a ChatAgent and as it is for a SimpleChatAgent, dumped to the file
SaveConversation ==
    /\ ca_kind # "none"
    /\ ca_file' = [written |-> TRUE,
                   document |-> YamlDump(IF ca_kind = "ChatAgent"
                                         THEN ChatAgentGetHistory(ca_heap.own)
                                         ELSE ca_heap.own),
                   saved |-> ca_heap.own]
    /\ ca_op' = [op |-> "save_conversation"]
    /\ ca_ret' = [value |-> <<>>, raised |-> FALSE]
    /\ ca_prev' = ca_heap.own
    /\ ca_turns' = Counted("other")
    /\ UNCHANGED << ca_heap, ca_got >>
    /\ OtherUnchanged

\* agent.load_conversation(file_path): open raises when the file was never
\* written; otherwise the history is replaced by what the file holds
LoadConversation ==
    /\ ca_kind # "none"
    /\ IF ~ca_file.written
       THEN /\ ca_ret' = [value |-> <<"FileNotFoundError">>, raised |-> TRUE]
            /\ UNCHANGED ca_heap
       ELSE /\ ca_ret' = [value |-> <<>>, raised |-> FALSE]
            /\ ca_heap' = [ca_heap EXCEPT !.own =
                              IF ca_kind = "ChatAgent"
                              THEN ChatAgentLoad(ca_heap.own, YamlLoad(ca_file.document))
                              ELSE YamlLoad(ca_file.document)]
    /\ ca_op' = [op |-> "load_conversation"]
    /\ ca_prev' = ca_heap.own
    /\ ca_turns' = Counted("other")
    /\ UNCHANGED << ca_got, ca_file >>
    /\ OtherUnchanged

\* history = agent.get_history() on a SimpleChatAgent: the caller now holds
\* the returned list
GetHistory ==
    /\ ca_kind = "SimpleChatAgent"
    /\ ca_heap' = [ca_heap EXCEPT ![HistoryRef] = ca_heap.own]
    /\ ca_got' = HistoryRef
    /\ ca_op' = [op |-> "get_history"]
    /\ ca_ret' = [value |-> ca_heap.own, raised |-> FALSE]
    /\ ca_prev' = ca_heap.own
    /\ ca_turns' = Counted("other")
    /\ UNCHANGED ca_file
    /\ OtherUnchanged

\* what a caller may do to the list it got: append an entry, remove the
\* entry at a position, or put another entry at a position
Edited(list, edit) ==
    IF edit.kind = "append" THEN Append(list, edit.entry)
    ELSE IF edit.kind = "remove"
    THEN SubSeq(list, 1, edit.at - 1) \o SubSeq(list, edit.at + 1, Len(list))
    ELSE [list EXCEPT ![edit.at] = edit.entry]

\* the caller edits the list get_history returned
CallerEdits(edit) ==
    /\ ca_got # "none"
    /\ IF edit.kind = "append" THEN Len(ca_heap[ca_got]) <= MaxChatLen
       ELSE edit.at \in 1..Len(ca_heap[ca_got])
    /\ ca_heap' = [ca_heap EXCEPT ![ca_got] = Edited(@, edit)]
    /\ ca_op' = [op |-> "caller_edit", edit |-> edit]
    /\ ca_ret' = [value |-> <<>>, raised |-> FALSE]
    /\ ca_prev' = ca_heap.own
    /\ UNCHANGED << ca_got, ca_file, ca_turns >>
    /\ OtherUnchanged

\* the agents' configurations: a name, and a system prompt or none
AgentNames == {<<"bot">>}
AgentPrompts == {<<>>, <<"be brief">>}
Messages == {<<"hello">>, <<"bye">>}
ApiError == [kind |-> "raise", value |-> <<"API Error">>]

\* ChatAgent(config_path) or SimpleChatAgent(config_path) constructed
ChatAgentCreated(kinds) ==
    /\ ca_kind \in kinds
    /\ ca_config \in [name : AgentNames, system_prompt : AgentPrompts]
    /\ ca_heap = [own |-> IF ca_kind = "ChatAgent"
                          THEN ChatAgentReset(ca_config.system_prompt)
                          ELSE SimpleReset(ca_config.system_prompt),
                  got |-> <<>>]
    /\ ca_got = "none"
    /\ ca_file = [written |-> FALSE, document |-> <<>>, saved |-> <<>>]
    /\ ca_op = NoOp
    /\ ca_ret = [value |-> <<>>, raised |-> FALSE]
    /\ ca_prev = <<>>
    /\ ca_turns = [ok |-> 0, failed |-> 0, other |-> 0]

\* turns of conversation with either agent, with resets in between
ChatInit ==
    /\ NoAgentManager
    /\ AgentNotStarted /\ ToolManagerLoaded /\ KnowledgeManagerInit
    /\ ChatAgentCreated({"ChatAgent", "SimpleChatAgent"})

ChatNext ==
    \/ \E message \in Messages, outcome \in ModelOutcomes :
           ChatAgentChatCall(message, outcome)
    \/ \E message \in Messages : SimpleChatCall(message)
    \/ ResetHistory

SpecChat == ChatInit /\ [][ChatNext]_vars

\* conversations saved to a file and loaded back
ConversationNext ==
    \/ \E outcome \in {[kind |-> "return", content |-> StrContent(<<"hi">>)], ApiError} :
           ChatAgentChatCall(<<"hello">>, outcome)
    \/ SimpleChatCall(<<"hello">>)
    \/ ResetHistory
    \/ SaveConversation
    \/ LoadConversation

SpecConversation == ChatInit /\ [][ConversationNext]_vars

\* a caller that edits the list it got from a SimpleChatAgent
Edits ==
    {[kind |-> "append", entry |-> Entry("user", <<"forged">>)]}
    \cup {[kind |-> k, at |-> i, entry |-> Entry("user", <<"forged">>)] :
              k \in {"remove", "replace"}, i \in 1..2}

HistoryInit ==
    /\ NoAgentManager
    /\ AgentNotStarted /\ ToolManagerLoaded /\ KnowledgeManagerInit
    /\ ChatAgentCreated({"SimpleChatAgent"})

HistoryNext ==
    \/ SimpleChatCall(<<"hello">>)
    \/ ResetHistory
    \/ GetHistory
    \/ \E edit \in Edits : CallerEdits(edit)

SpecHistory == HistoryInit /\ [][HistoryNext]_vars

(***************************************************************************)
(* Properties of the conversational agents.                                 *)
(***************************************************************************)

\* the last call was ChatAgent.chat and its model call returned
ChatSucceeded ==
    ca_kind = "ChatAgent" /\ ca_op.op = "chat" /\ ca_op.outcome.kind = "return"

\* the last call was ChatAgent.chat and its model call raised
ChatFailed ==
    ca_kind = "ChatAgent" /\ ca_op.op = "chat" /\ ca_op.outcome.kind = "raise"

\* C24: every ChatAgent.chat call whose model call succeeds invokes the model
\* exactly once and appends to chat_history exactly one user message carrying
\* the caller's message and then one assistant message whose content is the
\* returned reply, leaving the earlier messages as they were; an agent with a
\* system prompt on which nothing but n successful chat calls were made holds
\* 1 + 2n messages.
C24_SuccessfulTurnAppendsPair ==
    /\ ChatSucceeded =>
          /\ ca_op.invoked = 1
          /\ ~ca_ret.raised
          /\ Len(ca_heap.own) = Len(ca_prev) + 2
          /\ SubSeq(ca_heap.own, 1, Len(ca_prev)) = ca_prev
          /\ ca_heap.own[Len(ca_prev) + 1] = HumanMessage(ca_op.message)
          /\ ca_heap.own[Len(ca_prev) + 2] = AIMessage(ca_ret.value, <<>>)
    /\ (/\ ca_kind = "ChatAgent"
        /\ ca_config.system_prompt # <<>>
        /\ ca_turns.failed = 0
        /\ ca_turns.other = 0) => Len(ca_heap.own) = 1 + 2 * ca_turns.ok

\* two successful turns on a fresh agent with a system prompt, the second
\* answered with a list of parts
C24_Witness ==
    /\ ChatSucceeded
    /\ ca_op.outcome.content.kind = "list"
    /\ ca_config.system_prompt # <<>>
    /\ ca_turns = [ok |-> 2, failed |-> 0, other |-> 0]
    /\ Len(ca_heap.own) = 5

\* C25: when the model call raises during ChatAgent.chat, chat_history after
\* the call equals chat_history before the call: no user message is left in
\* it without its assistant reply.
C25_FailedTurnLeavesHistory ==
    ChatFailed => ca_heap.own = ca_prev

\* C26: when the model call raises during ChatAgent.chat, chat does not
\* raise: it returns a string that carries the error marker and the
\* exception's message; and a chat call made after a failed one returns as
\* any other does.
C26_FailedTurnReturnsErrorText ==
    /\ ChatFailed =>
          /\ ~ca_ret.raised
          /\ Contains(ca_ret.value, <<"chat error">>)
          /\ Contains(ca_ret.value, ca_op.outcome.value)
    /\ (ca_kind = "ChatAgent" /\ ca_op.op = "chat") => ~ca_ret.raised
    /\ (ChatSucceeded /\ ca_turns.failed > 0) => ca_ret.value = ExtractContent(ca_op.outcome.content)

\* a second failed turn on an agent that has answered a turn since the first
C26_Witness ==
    /\ ChatFailed
    /\ ca_ret.value = <<"chat error", ": ", "API Error">>
    /\ ca_turns = [ok |-> 1, failed |-> 2, other |-> 0]

\* C27: every SimpleChatAgent.chat(message) call appends to chat_history
\* exactly two entries, {role: user, content: message} and then
\* {role: assistant, content: reply}, changes no earlier entry, and returns a
\* reply that contains the agent's configured name and the message.
C27_SimpleChatAppendsPair ==
    (ca_kind = "SimpleChatAgent" /\ ca_op.op = "chat") =>
        /\ ~ca_ret.raised
        /\ ca_heap.own = ca_prev \o << [role |-> "user", content |-> ca_op.message],
                                       [role |-> "assistant", content |-> ca_ret.value] >>
        /\ Contains(ca_ret.value, ca_config.name)
        /\ Contains(ca_ret.value, ca_op.message)

\* a second turn on a SimpleChatAgent with a system prompt
C27_Witness ==
    /\ ca_kind = "SimpleChatAgent"
    /\ ca_op.op = "chat"
    /\ Len(ca_prev) = 3
    /\ ca_op.message = <<"bye">>

\* the role a history element carries, whether it is a message or a dict
RoleOf(element) ==
    IF "role" \in DOMAIN element THEN element.role
    ELSE IF element.type = "human" THEN "user"
    ELSE IF element.type = "ai" THEN "assistant"
    ELSE element.type

\* the (role, content) pairs of a history
RoleContentPairs(chat_history) ==
    [i \in 1..Len(chat_history) |-> <<RoleOf(chat_history[i]), chat_history[i].content>>]

\* C28: after reset_history on a ChatAgent or a SimpleChatAgent, whatever the
\* history held before, the history is exactly one system message carrying
\* the configured system prompt when a prompt is configured, and empty
\* otherwise.
C28_ResetLeavesSystemPrompt ==
    ca_op.op = "reset_history" =>
        RoleContentPairs(ca_heap.own) =
            IF ca_config.system_prompt # <<>>
            THEN << <<"system", ca_config.system_prompt>> >>
            ELSE <<>>

\* a ChatAgent with a prompt reset after turns and a load_conversation
C28_Witness ==
    /\ ca_kind = "ChatAgent"
    /\ ca_op.op = "reset_history"
    /\ ca_config.system_prompt # <<>>
    /\ Len(ca_prev) >= 3
    /\ ca_file.written
    /\ ca_prev = ca_file.saved
    /\ ca_turns.other >= 3

\* C29: save_conversation followed by load_conversation of the same file
\* restores the conversation: the history after load_conversation has the
\* same length and the same sequence of (role, content) pairs as at the time
\* of the save, whatever was done to the history in between.
C29_SaveLoadRestores ==
    (ca_op.op = "load_conversation" /\ ~ca_ret.raised) =>
        /\ Len(ca_heap.own) = Len(ca_file.saved)
        /\ RoleContentPairs(ca_heap.own) = RoleContentPairs(ca_file.saved)

\* a ChatAgent's saved conversation of system, user and assistant messages
\* loaded into the history that reset_history left
C29_Witness ==
    /\ ca_kind = "ChatAgent"
    /\ ca_op.op = "load_conversation"
    /\ ~ca_ret.raised
    /\ ca_config.system_prompt # <<>>
    /\ ca_prev = <<SystemMessage(ca_config.system_prompt)>>
    /\ {RoleOf(ca_file.saved[i]) : i \in 1..Len(ca_file.saved)} = {"system", "user", "assistant"}

\* C30: SimpleChatAgent.get_history returns a copy of the history: the list
\* the caller holds is another list object than chat_history, it has the same
\* entries in the same order when it is returned, and adding, removing or
\* replacing entries of it never changes chat_history.
C30_GetHistoryReturnsCopy ==
    /\ ca_op.op = "get_history" =>
          /\ ca_got # "own"
          /\ ca_heap[ca_got] = ca_heap.own
          /\ ca_ret.value = ca_heap.own
          /\ ca_heap.own = ca_prev
    /\ ca_op.op = "caller_edit" => ca_heap.own = ca_prev

\* the caller replaced the first entry of the list it got, and the two lists
\* now differ
C30_Witness ==
    /\ ca_op.op = "caller_edit"
    /\ ca_op.edit.kind = "replace"
    /\ Len(ca_heap.own) = 3
    /\ ca_heap[ca_got] # ca_heap.own
    /\ Len(ca_heap[ca_got]) = 3

(***************************************************************************)
(* The API key of an agent: ApiKeys (api_keys.py) maps key names to keys    *)
(* and base urls; both agents derive the key name from the model_config of  *)
(* their configuration.                                                     *)
(***************************************************************************)

\* str.lower() on the words used here
LowerOf ==
    [w \in {"OpenAI", "openai", "DeepSeek", "DEEPSEEK", "deepseek", "Anthropic",
            "DeepSeek-Chat", "deepseek-chat", "gpt-3.5-turbo", "GPT-4", "gpt-4"} |->
        CASE w \in {"OpenAI", "openai"} -> "openai"
          [] w \in {"DeepSeek", "DEEPSEEK", "deepseek"} -> "deepseek"
          [] w = "Anthropic" -> "anthropic"
          [] w \in {"DeepSeek-Chat", "deepseek-chat"} -> "deepseek-chat"
          [] w \in {"GPT-4", "gpt-4"} -> "gpt-4"
          [] OTHER -> w]

Lower(word) == LowerOf[word]

\* model_config.get(key, default)
ConfigGet(model_config, key, default) ==
    IF model_config[key] = None THEN default ELSE model_config[key]

\* A key name that compares the provider with 'deepseek' as it is written.
ApiKeyNameCaseSensitive(model_config) ==
    LET provider == ConfigGet(model_config, "provider", "OpenAI")
        model == ConfigGet(model_config, "model", "gpt-3.5-turbo")
    IN  IF provider = "deepseek" THEN Lower(model) ELSE Lower(provider)

\* api_key_name = model.lower() if provider.lower() == 'deepseek'
\*                else provider.lower()
ApiKeyName(model_config) ==
    LET provider == ConfigGet(model_config, "provider", "OpenAI")
        model == ConfigGet(model_config, "model", "gpt-3.5-turbo")
    IN  IF Lower(provider) = "deepseek" THEN Lower(model) ELSE Lower(provider)

\* ApiKey(name, type, key, base_url="")
ApiKey(key, base_url) == [key |-> key, base_url |-> base_url]

\* SimpleChatAgent.get_api_key
GetApiKey(config) ==
    LET api_key_name == ApiKeyName(config.model_config) IN
    IF api_key_name \in DOMAIN config.api_keys
    THEN [value |-> config.api_keys[api_key_name].key, raised |-> FALSE]
    ELSE [value |-> "ValueError", raised |-> TRUE]

\* SimpleChatAgent.get_base_url
GetBaseUrl(config) ==
    LET api_key_name == ApiKeyName(config.model_config) IN
    IF api_key_name \in DOMAIN config.api_keys
    THEN [value |-> config.api_keys[api_key_name].base_url, raised |-> FALSE]
    ELSE [value |-> "", raised |-> FALSE]

\* ChatAgent._init_chat_model: the ChatOpenAI arguments taken from the key,
\* or ValueError when the key is missing
InitChatModel(config) ==
    LET api_key_name == ApiKeyName(config.model_config) IN
    IF api_key_name \in DOMAIN config.api_keys
    THEN [value |-> [api_key |-> config.api_keys[api_key_name].key,
                     base_url |-> IF config.api_keys[api_key_name].base_url = ""
                                  THEN None
                                  ELSE config.api_keys[api_key_name].base_url],
          raised |-> FALSE]
    ELSE [value |-> "ValueError", raised |-> TRUE]

\* the frame of a construction or a key lookup
KeysUnchanged ==
    UNCHANGED << ca_config, ca_got, ca_file, ca_prev, ca_turns,
                 agent_vars, kb_vars, tm_vars, am_vars >>

\* ChatAgent(config_path, api_keys_path)
NewChatAgent ==
    /\ ca_kind = "none"
    /\ LET r == InitChatModel(ca_config) IN
        /\ ca_ret' = [value |-> IF r.raised THEN r.value ELSE <<>>, raised |-> r.raised]
        /\ ca_op' = [op |-> "ChatAgent", api_key_name |-> ApiKeyName(ca_config.model_config),
                     chat_model |-> r.value]
        /\ IF r.raised
           THEN UNCHANGED << ca_kind, ca_heap >>
           ELSE /\ ca_kind' = "ChatAgent"
                /\ ca_heap' = [ca_heap EXCEPT !.own = ChatAgentReset(ca_config.system_prompt)]
    /\ KeysUnchanged

\* SimpleChatAgent(config_path, api_keys_path)
NewSimpleChatAgent ==
    /\ ca_kind = "none"
    /\ ca_kind' = "SimpleChatAgent"
    /\ ca_heap' = [ca_heap EXCEPT !.own = SimpleReset(ca_config.system_prompt)]
    /\ ca_op' = [op |-> "SimpleChatAgent", api_key_name |-> ApiKeyName(ca_config.model_config),
                 base_url |-> GetBaseUrl(ca_config).value]
    /\ ca_ret' = [value |-> <<>>, raised |-> FALSE]
    /\ KeysUnchanged

\* agent.get_api_key() on a SimpleChatAgent
GetApiKeyCall ==
    /\ ca_kind = "SimpleChatAgent"
    /\ ca_op' = [op |-> "get_api_key", api_key_name |-> ApiKeyName(ca_config.model_config)]
    /\ ca_ret' = GetApiKey(ca_config)
    /\ UNCHANGED << ca_kind, ca_heap >>
    /\ KeysUnchanged

\* agent.get_base_url() on a SimpleChatAgent
GetBaseUrlCall ==
    /\ ca_kind = "SimpleChatAgent"
    /\ ca_op' = [op |-> "get_base_url", api_key_name |-> ApiKeyName(ca_config.model_config)]
    /\ ca_ret' = GetBaseUrl(ca_config)
    /\ UNCHANGED << ca_kind, ca_heap >>
    /\ KeysUnchanged

\* the model_config sections and api_keys.yaml files tried
Providers == {None, "OpenAI", "DeepSeek", "DEEPSEEK", "deepseek", "Anthropic"}
ModelNames == {None, "DeepSeek-Chat", "GPT-4"}
ApiKeyFiles ==
    {EmptyMap,
     [n \in {"openai"} |-> ApiKey("sk-o", "")],
     [n \in {"OpenAI"} |-> ApiKey("sk-O", "https://o")],
     [n \in {"deepseek"} |-> ApiKey("sk-d", "https://d")],
     [n \in {"deepseek-chat", "gpt-3.5-turbo"} |-> ApiKey("sk-" \o n, "https://" \o n)],
     [n \in {"gpt-4", "anthropic"} |-> ApiKey("sk-" \o n, "")]}

\* configuration files on disk, no agent constructed yet
KeysInit ==
    /\ NoAgentManager
    /\ AgentNotStarted /\ ToolManagerLoaded /\ KnowledgeManagerInit
    /\ ca_kind = "none"
    /\ ca_config \in [name : AgentNames, system_prompt : AgentPrompts,
                      model_config : [provider : Providers, model : ModelNames],
                      api_keys : ApiKeyFiles]
    /\ ca_heap = [own |-> <<>>, got |-> <<>>]
    /\ ca_got = "none"
    /\ ca_file = [written |-> FALSE, document |-> <<>>, saved |-> <<>>]
    /\ ca_op = NoOp
    /\ ca_ret = [value |-> <<>>, raised |-> FALSE]
    /\ ca_prev = <<>>
    /\ ca_turns = [ok |-> 0, failed |-> 0, other |-> 0]

KeysNext ==
    \/ NewChatAgent
    \/ NewSimpleChatAgent
    \/ GetApiKeyCall
    \/ GetBaseUrlCall

SpecKeys == KeysInit /\ [][KeysNext]_vars

\* the key name the configuration asks for
ExpectedKeyName ==
    LET provider == IF ca_config.model_config.provider = None THEN "OpenAI"
                    ELSE ca_config.model_config.provider
        model == IF ca_config.model_config.model = None THEN "gpt-3.5-turbo"
                 ELSE ca_config.model_config.model
    IN  IF Lower(provider) = "deepseek" THEN Lower(model) ELSE Lower(provider)

\* C31: the API-key name an agent looks up is the lowercased model name when
\* the configured provider equals 'deepseek' case-insensitively, and the
\* lowercased provider name for every other provider; when that key is
\* absent, SimpleChatAgent.get_api_key and ChatAgent construction raise
\* ValueError while SimpleChatAgent.get_base_url returns the empty string.
C31_ApiKeyLookup ==
    /\ ca_op.op \in {"ChatAgent", "SimpleChatAgent", "get_api_key", "get_base_url"} =>
          ca_op.api_key_name = ExpectedKeyName
    /\ (ca_op.op \in {"ChatAgent", "get_api_key"}
        /\ ExpectedKeyName \notin DOMAIN ca_config.api_keys) =>
          ca_ret = [value |-> "ValueError", raised |-> TRUE]
    /\ (ca_op.op = "ChatAgent" /\ ca_ret.raised) => ca_kind = "none"
    /\ (ca_op.op = "get_base_url"
        /\ ExpectedKeyName \notin DOMAIN ca_config.api_keys) =>
          ca_ret = [value |-> "", raised |-> FALSE]
    /\ (ca_op.op = "get_api_key"
        /\ ExpectedKeyName \in DOMAIN ca_config.api_keys) =>
          ca_ret = [value |-> ca_config.api_keys[ExpectedKeyName].key, raised |-> FALSE]

\* get_api_key fails for provider 'DEEPSEEK' although a key named deepseek
\* exists, because the key looked up is the model's
C31_Witness ==
    /\ ca_op.op = "get_api_key"
    /\ ca_config.model_config = [provider |-> "DEEPSEEK", model |-> "DeepSeek-Chat"]
    /\ DOMAIN ca_config.api_keys = {"deepseek"}
    /\ ca_ret.raised

(***************************************************************************)
(* A large store: the collection of "kb1" already holds a number of records *)
(* when the manager registers it (get_or_create_collection opens what the   *)
(* database holds), and items are added, deleted and counted.               *)
(***************************************************************************)

\* a record added earlier, all of them of category c1 and tag t1
FillerRecord(i) ==
    RecordOf(KnowledgeItem("f" \o ToString(i), "filler", None, "c1", << <<"t1">> >>,
                           EmptyMap, "d1"))

\* the sizes the collection starts with
StoredSizes == 0..(StatsSampleLimit + 1)

StatsInit ==
    /\ NoAgentManager
    /\ AgentNotStarted
    /\ ToolManagerLoaded
    /\ NoChatAgent
    /\ knowledge_bases = Put(EmptyMap, "kb1", CreateChromaKnowledgeBase(StoreConfig))
    /\ configs = Put(EmptyMap, "kb1", StoreConfig)
    /\ \E n \in StoredSizes :
           collections = [c \in CollectionNames |->
                             IF c = "kb1" THEN [i \in 1..n |-> FillerRecord(i)] ELSE <<>>]
    /\ kb_op = [op |-> "add_knowledge_base", name |-> "kb1", config |-> StoreConfig,
                fault |-> FALSE]
    /\ kb_ret = TRUE
    /\ kb_raised = FALSE
    /\ kb_prev = KbSnapshot(EmptyMap, EmptyMap, [c \in CollectionNames |-> <<>>])

StatsNext ==
    \/ \E item \in {PlainItem, OtherItem} : AddItem("kb1", item, FALSE)
    \/ \E item_id \in ItemIds : DeleteItem("kb1", item_id, FALSE)
    \/ \E fault \in BOOLEAN : GetStats("kb1", fault)

SpecStats == StatsInit /\ [][StatsNext]_vars

\* the records of "kb1" when the last call was made
StoredRecords == kb_prev.collections[kb_prev.knowledge_bases["kb1"].collection_name]

\* C32: get_stats of a store reports total_items equal to the number of
\* stored items and reports the distinct categories and the distinct tags of
\* all stored items, for every store size.
C32_StatsCoverAllItems ==
    (kb_op.op = "get_stats" /\ kb_op.kb_name = "kb1" /\ ~kb_op.fault) =>
        /\ kb_ret.total_items = Len(StoredRecords)
        /\ kb_ret.categories =
              {StoredRecords[i].metadata.category : i \in 1..Len(StoredRecords)} \ {""}
        /\ kb_ret.tags =
              UNION {{ParseTags(StoredRecords[i].metadata.tags)[j] :
                         j \in 1..Len(ParseTags(StoredRecords[i].metadata.tags))} :
                     i \in 1..Len(StoredRecords)}

\* C33: a successful clear of a store removes all items: afterwards get_item
\* returns absent for every identifier, list_items and search return empty
\* lists and get_stats reports total_items = 0, while the store stays
\* registered and every other registered store keeps its items.
C33_ClearRemovesAll ==
    (kb_op.op = "clear" /\ kb_ret = TRUE) =>
        LET n == kb_op.kb_name IN
        /\ n \in DOMAIN knowledge_bases
        /\ knowledge_bases = kb_prev.knowledge_bases
        /\ configs = kb_prev.configs
        /\ \A item_id \in ItemIds :
               ManagerGetItem(knowledge_bases, collections, n, item_id, FALSE).ret = NoItem
        /\ ManagerListItems(knowledge_bases, collections, n, None, <<>>,
                            DefaultLimit, DefaultOffset, FALSE).ret = <<>>
        /\ ManagerSearch(knowledge_bases, collections, n, NoDistance, DefaultTopK,
                         EmptyMap, FALSE).ret = <<>>
        /\ ManagerGetStats(knowledge_bases, collections, n, FALSE).ret.total_items = 0
        /\ \A o \in DOMAIN knowledge_bases \ {n} :
               CollectionOf(knowledge_bases, collections, o) = PrevCollectionOf(o)

\* C33 (amended): a successful clear of a store removes all its items:
\* afterwards get_item returns absent for every identifier, list_items and
\* search return empty lists and get_stats reports total_items = 0, while the
\* store stays registered and every other registered store that was opened
\* on another collection keeps its items (a store registered under another
\* name on the same collection is emptied with it).
C33_ClearRemovesAllOfCollection ==
    (kb_op.op = "clear" /\ kb_ret = TRUE) =>
        LET n == kb_op.kb_name IN
        /\ n \in DOMAIN knowledge_bases
        /\ knowledge_bases = kb_prev.knowledge_bases
        /\ configs = kb_prev.configs
        /\ \A item_id \in ItemIds :
               ManagerGetItem(knowledge_bases, collections, n, item_id, FALSE).ret = NoItem
        /\ ManagerListItems(knowledge_bases, collections, n, None, <<>>,
                            DefaultLimit, DefaultOffset, FALSE).ret = <<>>
        /\ ManagerSearch(knowledge_bases, collections, n, NoDistance, DefaultTopK,
                         EmptyMap, FALSE).ret = <<>>
        /\ ManagerGetStats(knowledge_bases, collections, n, FALSE).ret.total_items = 0
        /\ \A o \in DOMAIN knowledge_bases \ {n} :
               IF knowledge_bases[o].collection_name = knowledge_bases[n].collection_name
               THEN CollectionOf(knowledge_bases, collections, o) = <<>>
               ELSE CollectionOf(knowledge_bases, collections, o) = PrevCollectionOf(o)

\* a store holding an item is cleared while another store, on another
\* collection, holds an item too
C33_Witness ==
    /\ kb_op.op = "clear" /\ kb_ret = TRUE
    /\ PrevCollectionOf(kb_op.kb_name) # <<>>
    /\ \E o \in DOMAIN knowledge_bases \ {kb_op.kb_name} :
           /\ knowledge_bases[o].collection_name # knowledge_bases[kb_op.kb_name].collection_name
           /\ CollectionOf(knowledge_bases, collections, o) # <<>>

(***************************************************************************)
(* AgentManager (agent_manager.py): agent templates that reference tools of *)
(* a McpToolManager and knowledge stores by name.  The module imports       *)
(* KnowledgeManagerFactory from knowledge_manager.py, which defines no such *)
(* name; am_env.factory says whether the knowledge_manager module at hand   *)
(* provides it.                                                             *)
(***************************************************************************)

\* the names a `from .knowledge_manager import ...` can find
KnowledgeManagerProvides(env) ==
    {"KnowledgeManager", "KnowledgeBase", "KnowledgeItem", "SearchResult",
     "KnowledgeType", "ChromaKnowledgeBase", "KnowledgeBaseConfig"}
    \cup (IF env.factory THEN {"KnowledgeManagerFactory"} ELSE {})

\* from .knowledge_manager import KnowledgeManagerFactory, KnowledgeItem
AgentManagerImports == {"KnowledgeManagerFactory", "KnowledgeItem"}

\* knowledge_manager.list_knowledge_items(): the configured stores by name,
\* each with its enabled flag
ListKnowledgeItems(env) == env.knowledge

\* the entries validate_agent_template writes
NotFoundIssue(kind, name) == <<kind, name, "not found">>
DisabledIssue(kind, name) == <<kind, name, "disabled">>
MemoryUrlIssue == <<"memory", "chroma", "needs url">>

\* one loop of validate_agent_template: the names not in available, in the
\* order of the template
NotFoundIssues(kind, names, available) ==
    LET missing == SelectSeq(names, LAMBDA n : n \notin DOMAIN available)
    IN  [i \in 1..Len(missing) |-> NotFoundIssue(kind, missing[i])]

\* and the names that are there but not enabled
DisabledIssues(kind, names, available) ==
    LET disabled == SelectSeq(names, LAMBDA n : n \in DOMAIN available /\ ~ available[n].enabled)
    IN  [i \in 1..Len(disabled) |-> DisabledIssue(kind, disabled[i])]

\* AgentManager.validate_agent_template, the template found
ValidateAgentTemplate(env, template) ==
    [errors |-> NotFoundIssues("tool", template.tools, env.tools)
                \o NotFoundIssues("knowledge", template.knowledge_bases,
                                  ListKnowledgeItems(env))
                \o (IF template.memory.enable /\ template.memory.type = "chroma"
                       /\ template.memory.url = ""
                    THEN <<MemoryUrlIssue>> ELSE <<>>),
     warnings |-> DisabledIssues("tool", template.tools, env.tools)
                  \o DisabledIssues("knowledge", template.knowledge_bases,
                                    ListKnowledgeItems(env))]

\* get_agent_tools and get_agent_knowledge_bases: the referenced names that
\* are available and enabled, with their entries
AvailableEnabled(names, available) ==
    [n \in {names[i] : i \in 1..Len(names)}
           \cap {a \in DOMAIN available : available[a].enabled} |-> available[n]]

\* a call on the AgentManager of agent_manager.py: importing the module
\* raises ImportError when a name it imports is not provided, and
\* get_template raises KeyError for an unknown template; results gives what
\* the method returns for each template id
ManagerCall(env, agent_id, results) ==
    IF ~ (AgentManagerImports \subseteq KnowledgeManagerProvides(env))
    THEN [value |-> <<>>, raised |-> "ImportError"]
    ELSE IF agent_id \notin DOMAIN env.templates
    THEN [value |-> <<>>, raised |-> "KeyError"]
    ELSE [value |-> results[agent_id], raised |-> "no"]

AmUnchanged == UNCHANGED << am_env, agent_vars, kb_vars, tm_vars, ca_vars >>

\* manager.validate_agent_template(agent_id)
ValidateAgentTemplateCall(agent_id) ==
    /\ am_op' = [op |-> "validate_agent_template", agent_id |-> agent_id]
    /\ am_ret' = ManagerCall(am_env, agent_id,
                             [id \in DOMAIN am_env.templates |->
                                 ValidateAgentTemplate(am_env, am_env.templates[id])])
    /\ AmUnchanged

\* manager.get_agent_tools(agent_id)
GetAgentTools(agent_id) ==
    /\ am_op' = [op |-> "get_agent_tools", agent_id |-> agent_id]
    /\ am_ret' = ManagerCall(am_env, agent_id,
                             [id \in DOMAIN am_env.templates |->
                                 AvailableEnabled(am_env.templates[id].tools,
                                                  am_env.tools)])
    /\ AmUnchanged

\* manager.get_agent_knowledge_bases(agent_id)
GetAgentKnowledgeBases(agent_id) ==
    /\ am_op' = [op |-> "get_agent_knowledge_bases", agent_id |-> agent_id]
    /\ am_ret' = ManagerCall(am_env, agent_id,
                             [id \in DOMAIN am_env.templates |->
                                 AvailableEnabled(am_env.templates[id].knowledge_bases,
                                                  ListKnowledgeItems(am_env))])
    /\ AmUnchanged

\* agents.yaml with one template, config/tools and the configured stores
AgentTemplateFiles ==
    [{"assistant"} ->
        [tools : {<<>>, <<"calc">>, <<"off">>, <<"calc", "ghost">>},
         knowledge_bases : {<<>>, <<"kb1">>, <<"kb_off">>, <<"kb1", "kb_off", "ghost">>},
         memory : {[enable |-> FALSE, type |-> "chroma", url |-> ""],
                   [enable |-> TRUE, type |-> "chroma", url |-> ""]}]]

McpTools == {EmptyMap, [n \in {"calc", "off"} |-> [enabled |-> n = "calc"]]}
KnowledgeEntries == {EmptyMap, [n \in {"kb1", "kb_off"} |-> [enabled |-> n = "kb1"]]}

ManagerInit ==
    /\ AgentNotStarted /\ ToolManagerLoaded /\ NoChatAgent /\ KnowledgeManagerInit
    /\ am_env \in [factory : BOOLEAN, templates : AgentTemplateFiles,
                   tools : McpTools, knowledge : KnowledgeEntries]
    /\ am_op = NoOp
    /\ am_ret = [value |-> <<>>, raised |-> "no"]

ManagerNext ==
    \E agent_id \in {"assistant", "nobody"} :
        \/ ValidateAgentTemplateCall(agent_id)
        \/ GetAgentTools(agent_id)
        \/ GetAgentKnowledgeBases(agent_id)

SpecManager == ManagerInit /\ [][ManagerNext]_vars

\* C34: validate_agent_template reports every knowledge store referenced by
\* the template that is absent or disabled as an entry of the errors of its
\* result and does not raise for that; get_agent_tools and
\* get_agent_knowledge_bases return only referenced entries that are present
\* and enabled.
C34_UnusableStoresAreErrors ==
    am_op.op # "none" /\ am_op.agent_id \in DOMAIN am_env.templates =>
        LET template == am_env.templates[am_op.agent_id] IN
        /\ am_op.op = "validate_agent_template" =>
               \A i \in 1..Len(template.knowledge_bases) :
                   LET kb_name == template.knowledge_bases[i] IN
                   (kb_name \notin DOMAIN am_env.knowledge
                    \/ ~ am_env.knowledge[kb_name].enabled) =>
                       /\ am_ret.raised = "no"
                       /\ \E e \in 1..Len(am_ret.value.errors) :
                              /\ am_ret.value.errors[e][1] = "knowledge"
                              /\ am_ret.value.errors[e][2] = kb_name
        /\ (am_op.op = "get_agent_tools" /\ am_ret.raised = "no") =>
               \A n \in DOMAIN am_ret.value :
                   /\ \E i \in 1..Len(template.tools) : template.tools[i] = n
                   /\ n \in DOMAIN am_env.tools /\ am_env.tools[n].enabled
        /\ (am_op.op = "get_agent_knowledge_bases" /\ am_ret.raised = "no") =>
               \A n \in DOMAIN am_ret.value :
                   /\ \E i \in 1..Len(template.knowledge_bases) : template.knowledge_bases[i] = n
                   /\ n \in DOMAIN am_env.knowledge /\ am_env.knowledge[n].enabled

\* the stored items, in stored order, that a list_items call asks for
MatchingItems(coll, category, tags) ==
    SelectSeq([i \in 1..Len(coll) |-> ItemOfRecord(coll[i])],
              LAMBDA item :
                  /\ Falsy(category) \/ item.category = category
                  /\ tags = <<>> \/ \E t \in 1..Len(tags), u \in 1..Len(item.tags) :
                                        tags[t] = item.tags[u])

\* C35: list_items(category, tags, limit, offset) returns the first limit
\* matching items after skipping offset matching items, matching meaning the
\* category and the tags filter together: a page is shorter than limit only
\* when no further matching item exists.
C35_PaginationOverFiltered ==
    (kb_op.op = "list_items" /\ ~ kb_op.fault /\ kb_op.limit > 0) =>
        LET matching == MatchingItems(PrevColl, kb_op.category, kb_op.tags)
            upto == IF kb_op.offset + kb_op.limit < Len(matching)
                    THEN kb_op.offset + kb_op.limit ELSE Len(matching)
        IN  kb_ret = SubSeq(matching, kb_op.offset + 1, upto)

\* C36: update_item either returns True with the item replaced by the
\* updated version, or returns False with the store unchanged; an existing
\* item is never lost because the re-insertion failed after the deletion.
C36_UpdateAtomic ==
    kb_op.op = "update_item" =>
        \/ /\ kb_ret = TRUE
           /\ PrevItem(kb_op.item_id) # NoItem
           /\ CurrItem(kb_op.item_id) =
                  << ItemOfRecord(RecordOf(UpdatedItem(PrevItem(kb_op.item_id)[1],
                                                      kb_op.updates))) >>
        \/ /\ kb_ret = FALSE
           /\ collections = kb_prev.collections


\* C37: search_all called with an explicit subset queries only that subset:
\* the keys of the result are the names of the subset that are registered
\* (unregistered names are left out, nothing is raised), and an explicitly
\* empty subset yields the empty mapping.
C37_ExplicitSubsetOnly ==
    (kb_op.op = "search_all" /\ kb_op.kb_names.given) =>
        /\ ~ kb_raised
        /\ DOMAIN kb_ret = kb_op.kb_names.names \cap DOMAIN kb_prev.knowledge_bases

\* C38: the names with a live store are the names with a configuration, after
\* any sequence of add_knowledge_base and remove_knowledge_base;
\* remove_knowledge_base returns True exactly when the name was registered and
\* then removes its store and its configuration, and otherwise returns False
\* and leaves the registry as it was.
C38_StoresAndConfigsAgree ==
    /\ DOMAIN knowledge_bases = DOMAIN configs
    /\ kb_op.op = "remove_knowledge_base" =>
           /\ kb_ret = (kb_op.name \in DOMAIN kb_prev.knowledge_bases)
           /\ kb_op.name \notin DOMAIN knowledge_bases \cup DOMAIN configs
           /\ DOMAIN knowledge_bases = DOMAIN kb_prev.knowledge_bases \ {kb_op.name}
           /\ \A n \in DOMAIN knowledge_bases :
                  /\ knowledge_bases[n] = kb_prev.knowledge_bases[n]
                  /\ configs[n] = kb_prev.configs[n]

\* one of two registered stores is removed and the other one stays
C38_Witness ==
    /\ kb_op.op = "remove_knowledge_base"
    /\ kb_ret = TRUE
    /\ DOMAIN kb_prev.knowledge_bases = KbNames
    /\ DOMAIN knowledge_bases = KbNames \ {kb_op.name}

\* C39: add_knowledge_base under a name that is registered already replaces
\* the store and the configuration of the name when it succeeds, and leaves
\* the previous store and configuration in place and addressable when it
\* returns False (failed or disabled).
C39_ReRegistration ==
    (/\ kb_op.op = "add_knowledge_base"
     /\ kb_op.name \in DOMAIN kb_prev.knowledge_bases) =>
        /\ kb_op.name \in DOMAIN knowledge_bases \cap DOMAIN configs
        /\ IF kb_ret = TRUE
           THEN /\ knowledge_bases[kb_op.name] = CreateChromaKnowledgeBase(kb_op.config)
                /\ configs[kb_op.name] = kb_op.config
           ELSE /\ knowledge_bases[kb_op.name] = kb_prev.knowledge_bases[kb_op.name]
                /\ configs[kb_op.name] = kb_prev.configs[kb_op.name]
                /\ CollectionOf(knowledge_bases, collections, kb_op.name)
                       = PrevCollectionOf(kb_op.name)

\* a name registered on one collection is registered again, successfully, with
\* a config that names another collection
C39_Witness ==
    /\ kb_op.op = "add_knowledge_base"
    /\ kb_op.name \in DOMAIN kb_prev.knowledge_bases
    /\ kb_ret = TRUE
    /\ knowledge_bases[kb_op.name] # kb_prev.knowledge_bases[kb_op.name]
    /\ configs[kb_op.name] # kb_prev.configs[kb_op.name]

=============================================================================
